---- MODULE Spec2Model ----
(***************************************************************************)
(* A model of mylauncher / mycli: the persistent history stores            *)
(* (CommandHistory, AppHistory) and their JSON file, the app-suggestion    *)
(* ranker, the command executor, the menu-bar application with its popup   *)
(* processes, the global hotkey listener and the user configuration.       *)
(*                                                                         *)
(* Python strings are sequences of code points (97 = "a", 65 = "A",        *)
(* 32 = " "), so that lower(), strip() and the substring test are computed *)
(* and not assumed.                                                        *)
(***************************************************************************)
EXTENDS Integers, Sequences, FiniteSets, TLC

VARIABLES
    hcls,       \* which store class: "CommandHistory" or "AppHistory"
    hmax,       \* self._max_items
    hfile,      \* content of the backing file (COMMAND_HISTORY_FILE / APP_HISTORY_FILE)
    hitems,     \* self._items
    lastOp,     \* observation: the last call made on the store and the list before it
    variant,    \* which package ranks: "mylauncher" or "mycli"
    running,    \* NSWorkspace.runningApplications(): regular, named apps, in the OS's order
    installed,  \* what get_installed_apps() returns (mylauncher: _installed_apps_cache)
    shown,      \* the last suggestion call: its query and the list it returned
    epc,        \* where execute_command is
    cmd,        \* the command run: what its shell process will do
    has_timeout,\* timeout is not None
    process,    \* the shell process: "None", "running", "zombie" (exited), "reaped"
    children,   \* processes the command left in its process group, holding the pipes
    exit_status,\* the exit status of the shell process (negative: killed by a signal)
    in_time,    \* communicate() got the output and the exit before any timeout
    timed_out,  \* communicate() raised subprocess.TimeoutExpired
    result,     \* the ExecutionResult returned
    popup_lock, \* self._popup_lock: "free" or the call that holds it
    popup_process, \* self._popup_process: 0 for None, else the number of the Process
    started,    \* how many popup processes have been started
    alive,      \* the popup processes that are alive
    outcome,    \* what the user did in each popup that has ended
    calls,      \* the calls of show_command_popup: where each is, the process it started
    waiters,    \* the _wait_for_popup threads: where each is, the process it joins
    menu,       \* the commands the Recent Commands submenu lists
    ui,         \* what the main (UI) thread of the menu-bar process is doing
    hk_cfg,     \* HotkeyManager: self._mod_flags and self._hotkey_vk
    hk_mods,    \* the modifier keys that are down
    hk_held,    \* the key that is down (NoKey: none)
    hk_downs,   \* how many times the user has pressed the chord
    hk_calls,   \* how many times the tap has scheduled self._on_hotkey
    hk_last,    \* observation: the last event the tap's callback got, what it returned
    cfg_file,   \* the content of CONFIG_FILE
    cfg_got,    \* the last user_config.get: the option asked and what came back
    disk,       \* the application directories: which exist, the bundles glob yields
    installed_apps_cache, \* _installed_apps_cache: None or the list of the last scan
    pk,         \* which popup runs: a run_popup or the modal panel of mycli/app.py
    search_var, \* search_var / input_field: the text of the search field
    current_items, \* items / current_items / suggestions: the records the list shows
    buttons,    \* len(buttons): the item buttons that exist
    selected_idx, \* selected_idx[0] / selected_index[0] / the selected table row
    apps_loaded, \* apps_loaded[0]: the deferred load has run
    result_app, \* result_app[0] / selected_app: None or the app chosen
    result_cmd, \* result_cmd[0] / command_to_run[0]: None or the command to run
    win,        \* the window: "open", "closing" (withdrawn), "ended", "done"
    dismissed,  \* observation: the event that closed the popup
    late,       \* observation: a handler ran between close_popup and the destroy
    acts,       \* observation: the apps focused or launched and the commands launched
    cmd_items,  \* the command history: CommandHistory._items
    command_queue, \* command_queue: the commands put and not yet taken
    result_queue, \* result_queue: the messages the worker has put
    worker,     \* popup_worker: where it is, how each run_popup it called ended
    received,   \* observation: the commands command_queue.get() has returned, in order
    sent        \* observation: the commands the parent has put, in order

histVars == <<hcls, hmax, hfile, hitems, lastOp>>
suggVars == <<variant, running, installed, shown>>
execVars == <<epc, cmd, has_timeout, process, children, exit_status, in_time, timed_out,
             result>>
appVars == <<popup_lock, popup_process, started, alive, outcome, calls, waiters, menu, ui>>
hotVars == <<hk_cfg, hk_mods, hk_held, hk_downs, hk_calls, hk_last>>
cfgVars == <<cfg_file, cfg_got>>
scanVars == <<disk, installed_apps_cache>>
sessVars == <<pk, search_var, current_items, buttons, selected_idx, apps_loaded, result_app,
             result_cmd, win, dismissed, late, acts, cmd_items>>
workVars == <<command_queue, result_queue, worker, received, sent>>
vars == <<hcls, hmax, hfile, hitems, lastOp, variant, running, installed, shown,
          epc, cmd, has_timeout, process, children, exit_status, in_time, timed_out,
          result, popup_lock, popup_process, started, alive, outcome, calls, waiters,
          menu, ui, hk_cfg, hk_mods, hk_held, hk_downs, hk_calls, hk_last, cfg_file,
          cfg_got,
          disk, installed_apps_cache,
          pk, search_var, current_items, buttons, selected_idx, apps_loaded, result_app,
          result_cmd, win, dismissed, late, acts, cmd_items,
          command_queue, result_queue, worker, received, sent>>

\* everything but one group of variables
exceptHist == <<suggVars, execVars, appVars, hotVars, cfgVars, scanVars, sessVars, workVars>>
exceptSugg == <<histVars, execVars, appVars, hotVars, cfgVars, scanVars, sessVars, workVars>>
exceptExec == <<histVars, suggVars, appVars, hotVars, cfgVars, scanVars, sessVars, workVars>>
exceptApp == <<suggVars, execVars, hotVars, cfgVars, scanVars, sessVars, workVars>>
exceptHot == <<histVars, suggVars, execVars, appVars, cfgVars, scanVars, sessVars, workVars>>
exceptCfg == <<histVars, suggVars, execVars, appVars, hotVars, scanVars, sessVars, workVars>>
exceptScan == <<histVars, suggVars, execVars, appVars, hotVars, cfgVars, sessVars, workVars>>
exceptScanSugg == <<histVars, execVars, appVars, hotVars, cfgVars, sessVars, workVars>>
exceptSess == <<histVars, suggVars, execVars, appVars, hotVars, cfgVars, scanVars, workVars>>
exceptSessHist == <<suggVars, execVars, appVars, hotVars, cfgVars, scanVars, workVars>>
exceptWork == <<histVars, suggVars, execVars, appVars, hotVars, cfgVars, scanVars, sessVars>>

(***************************************************************************)
(* Bounds of the model.                                                    *)
(***************************************************************************)
MaxCap == 2         \* capacities 1..MaxCap are tried
MaxFileLen == 2     \* a persisted list holds at most this many entries
MaxRunning == 2     \* at most this many apps run
MaxPerDir == 1      \* an application directory holds at most this many bundles
MaxPopups == 2      \* at most this many popup processes are started
MaxHotkeyCalls == 2 \* at most this many hotkey callbacks are scheduled
MaxSent == 4        \* the parent puts at most this many commands on the queue
MaxEdited == 1      \* a config file differs from the template in at most this many options

(***************************************************************************)
(* Strings.                                                                *)
(***************************************************************************)
Range(s) == {s[i] : i \in 1..Len(s)}

SeqsUpTo(S, n) == UNION {[1..k -> S] : k \in 0..n}

\* str.isspace() of one character (ASCII whitespace)
IsSpace(c) == c \in {9, 10, 11, 12, 13, 32}

\* "not s.strip()": nothing is left once the whitespace is stripped
StripIsEmpty(s) == \A i \in 1..Len(s) : IsSpace(s[i])

\* the tokens tried: "", " ", "a", "b", "c"
Tokens == {<<>>, <<32>>, <<97>>, <<98>>, <<99>>}

(***************************************************************************)
(* List primitives of Python, as the code uses them.                       *)
(***************************************************************************)
\* l[:n] for n >= 0
Take(l, n) == SubSeq(l, 1, IF n < Len(l) THEN n ELSE Len(l))

\* x in l
Contains(l, x) == \E i \in 1..Len(l) : l[i] = x

\* l.index(x), zero-based; the caller has checked that x is in l
RECURSIVE IndexFrom(_, _, _)
IndexFrom(l, x, i) ==
    IF i > Len(l) THEN -1
    ELSE IF l[i] = x THEN i - 1
    ELSE IndexFrom(l, x, i + 1)

Index(l, x) == IndexFrom(l, x, 1)

\* l.remove(x): removes the first occurrence only
ListRemove(l, x) ==
    LET k == Index(l, x) + 1
    IN  SubSeq(l, 1, k - 1) \o SubSeq(l, k + 1, Len(l))

\* l.insert(0, x)
InsertFront(l, x) == <<x>> \o l

(***************************************************************************)
(* The backing file.  kind is what _load finds:                            *)
(*   "missing"    the file does not exist                                  *)
(*   "unreadable" the file exists, reading it raises                       *)
(*   "malformed"  not JSON: json.loads raises                              *)
(*   "notobject"  JSON but not an object: data.get raises                  *)
(*   "nokey"      an object without the key: data.get gives []             *)
(*   "scalar"     under the key a number, true, false, null or an object:  *)
(*                the slice raises                                         *)
(*   "string"     under the key a string: items holds its characters       *)
(*   "list"       an object with a list of strings under the key           *)
(***************************************************************************)
FileKinds == {"missing", "malformed", "notobject", "nokey", "list"}

NoList(k) == [kind |-> k, items |-> <<>>]

\* no call made on the store yet
NoOp == [op |-> "init", token |-> <<>>, before |-> <<>>, write |-> "none"]

FileContents ==
    {NoList(k) : k \in FileKinds \ {"list"}}
        \cup {[kind |-> "list", items |-> l] : l \in SeqsUpTo(Tokens, MaxFileLen)}

\* _load: what the constructor leaves in self._items; the slice of a string
\* is a string, every other value that is not a list ends in except Exception
Load(file, max_items) ==
    IF file.kind \in {"list", "string"} THEN Take(file.items, max_items) ELSE <<>>

(***************************************************************************)
(* JSON text, as a sequence of code points: what json.dumps writes and     *)
(* what json.loads reads back.                                             *)
(***************************************************************************)
\* the one key of the object: "commands" or "apps"
Key(cls) ==
    IF cls = "CommandHistory" THEN <<99, 111, 109, 109, 97, 110, 100, 115>>
    ELSE <<97, 112, 112, 115>>

\* a hexadecimal digit, lower case
HexDigit(d) == IF d < 10 THEN 48 + d ELSE 87 + d

Hex4(c) ==
    <<HexDigit((c \div 4096) % 16), HexDigit((c \div 256) % 16),
      HexDigit((c \div 16) % 16), HexDigit(c % 16)>>

\* json.dumps of one character of a string (ensure_ascii=True)
EscapeCharPlain(c) == <<c>>

EscapeChar(c) ==
    CASE c = 34 -> <<92, 34>>
      [] c = 92 -> <<92, 92>>
      [] c = 10 -> <<92, 110>>
      [] c = 13 -> <<92, 114>>
      [] c = 9 -> <<92, 116>>
      [] c = 8 -> <<92, 98>>
      [] c = 12 -> <<92, 102>>
      [] OTHER -> IF c < 32 \/ c > 126 THEN <<92, 117>> \o Hex4(c) ELSE <<c>>

RECURSIVE EscapeAll(_)
EscapeAll(s) == IF s = <<>> THEN <<>> ELSE EscapeChar(Head(s)) \o EscapeAll(Tail(s))

JsonString(s) == <<34>> \o EscapeAll(s) \o <<34>>

\* the items of an array under indent=2: one item a line, commas between
RECURSIVE JsonItems(_)
JsonItems(l) ==
    IF l = <<>> THEN <<>>
    ELSE <<10, 32, 32, 32, 32>> \o JsonString(Head(l))
            \o (IF Len(l) > 1 THEN <<44>> ELSE <<>>) \o JsonItems(Tail(l))

JsonArray(l) ==
    IF l = <<>> THEN <<91, 93>> ELSE <<91>> \o JsonItems(l) \o <<10, 32, 32, 93>>

\* json.dumps({key: items}, indent=2)
json_dumps(key, items) ==
    <<123, 10, 32, 32>> \o JsonString(key) \o <<58, 32>> \o JsonArray(items) \o <<10, 125>>

\* the value of a hexadecimal digit, -1 for any other character
HexVal(d) ==
    IF d >= 48 /\ d <= 57 THEN d - 48
    ELSE IF d >= 97 /\ d <= 102 THEN d - 87
    ELSE IF d >= 65 /\ d <= 70 THEN d - 55
    ELSE -1

Failed == [ok |-> FALSE, value |-> <<>>, next |-> 0]

\* the first position from i on that holds no white space
RECURSIVE SkipWs(_, _)
SkipWs(t, i) == IF i <= Len(t) /\ t[i] \in {32, 9, 10, 13} THEN SkipWs(t, i + 1) ELSE i

\* the character an escape letter stands for, -1 if it is no escape letter
Unescaped(e) ==
    CASE e \in {34, 92, 47} -> e
      [] e = 110 -> 10
      [] e = 114 -> 13
      [] e = 116 -> 9
      [] e = 98 -> 8
      [] e = 102 -> 12
      [] OTHER -> -1

\* json.decoder: the rest of a string literal from position i on
RECURSIVE ScanString(_, _, _)
ScanString(t, i, acc) ==
    IF i > Len(t) THEN Failed
    ELSE IF t[i] = 34 THEN [ok |-> TRUE, value |-> acc, next |-> i + 1]
    ELSE IF t[i] = 92
         THEN IF i + 1 > Len(t) THEN Failed
              ELSE IF t[i + 1] = 117
                   THEN IF i + 5 > Len(t) \/ \E k \in 2..5 : HexVal(t[i + k]) < 0
                        THEN Failed
                        ELSE ScanString(t, i + 6,
                                 Append(acc, 4096 * HexVal(t[i + 2]) + 256 * HexVal(t[i + 3])
                                                + 16 * HexVal(t[i + 4]) + HexVal(t[i + 5])))
                   ELSE IF Unescaped(t[i + 1]) < 0 THEN Failed
                        ELSE ScanString(t, i + 2, Append(acc, Unescaped(t[i + 1])))
    ELSE IF t[i] < 32 THEN Failed
    ELSE ScanString(t, i + 1, Append(acc, t[i]))

ParseString(t, i) == IF i <= Len(t) /\ t[i] = 34 THEN ScanString(t, i + 1, <<>>) ELSE Failed

\* the strings of an array from position i on, up to its closing bracket
RECURSIVE ScanArray(_, _, _)
ScanArray(t, i, acc) ==
    LET s == ParseString(t, SkipWs(t, i))
        j == SkipWs(t, s.next)
    IN  IF ~s.ok \/ j > Len(t) THEN Failed
        ELSE IF t[j] = 44 THEN ScanArray(t, j + 1, Append(acc, s.value))
        ELSE IF t[j] = 93 THEN [ok |-> TRUE, value |-> Append(acc, s.value), next |-> j + 1]
        ELSE Failed

ParseArray(t, i) ==
    LET j == SkipWs(t, i + 1)
    IN  IF i > Len(t) \/ t[i] # 91 THEN Failed
        ELSE IF j <= Len(t) /\ t[j] = 93 THEN [ok |-> TRUE, value |-> <<>>, next |-> j + 1]
        ELSE ScanArray(t, j, <<>>)

\* json.loads of a text holding an object with one field, an array of
\* strings, and what data.get(key, []) finds in it
json_loads(t, key) ==
    LET i1 == SkipWs(t, 1)
        k == ParseString(t, SkipWs(t, i1 + 1))
        i2 == SkipWs(t, k.next)
        a == ParseArray(t, SkipWs(t, i2 + 1))
        i3 == SkipWs(t, a.next)
    IN  IF i1 > Len(t) \/ t[i1] # 123 THEN NoList("malformed")
        ELSE IF ~k.ok \/ i2 > Len(t) THEN NoList("malformed")
        ELSE IF t[i2] # 58 \/ ~a.ok \/ i3 > Len(t) THEN NoList("malformed")
        ELSE IF t[i3] # 125 \/ SkipWs(t, i3 + 1) <= Len(t) THEN NoList("malformed")
        ELSE IF k.value # key THEN NoList("nokey")
        ELSE [kind |-> "list", items |-> a.value]

\* _save with a write that succeeds: the file holds json.dumps({key: self._items})
Saved(items) == json_loads(json_dumps(Key(hcls), items), Key(hcls))

\* how a write ends: "ok"; "unwritable", the file cannot be opened for writing;
\* "truncated", the file is opened (and so emptied) and the write then fails
WriteOutcomes == {"ok", "unwritable", "truncated"}

\* _save: the file after write_text, whose exception _save swallows
WrittenAnyhow(file, items, how) == Saved(items)

Written(file, items, how) ==
    CASE how = "ok" -> Saved(items)
      [] how = "unwritable" -> file
      [] how = "truncated" -> NoList("malformed")

\* self._items holds a string and not a list
HoldsString == hfile.kind = "string"

\* the guard of add: CommandHistory rejects blank commands, AppHistory empty ids
Rejected(cls, token) ==
    IF cls = "CommandHistory" THEN token = <<>> \/ StripIsEmpty(token)
    ELSE token = <<>>

\* the body of add after the guard: remove duplicate, insert at front, trim
AddedTrimWrong(items, token, max_items) ==
    LET removed == IF Contains(items, token) THEN ListRemove(items, token) ELSE items
    IN  InsertFront(removed, token)

AddedInsertWrong(items, token, max_items) ==
    LET removed == IF Contains(items, token) THEN ListRemove(items, token) ELSE items
    IN  Take(removed \o <<token>>, max_items)

AddedDropWrong(items, token, max_items) ==
    LET removed == IF Contains(items, token) THEN ListRemove(items, token) ELSE items
        l == InsertFront(removed, token)
    IN  IF Len(l) > max_items THEN SubSeq(l, 1, 1) \o SubSeq(l, 3, Len(l)) ELSE l

Added(items, token, max_items) ==
    LET removed == IF Contains(items, token) THEN ListRemove(items, token) ELSE items
    IN  Take(InsertFront(removed, token), max_items)

\* get_all
get_all == hitems

\* get_recency
Sentinel == 999

get_recency_offbyone(bundle_id) ==
    IF bundle_id = <<>> THEN Sentinel
    ELSE IF Contains(hitems, bundle_id) THEN Index(hitems, bundle_id) + 1
    ELSE Sentinel

get_recency(bundle_id) ==
    IF bundle_id = <<>> THEN Sentinel
    ELSE IF Contains(hitems, bundle_id) THEN Index(hitems, bundle_id)
    ELSE Sentinel

(***************************************************************************)
(* App inventory and suggestion ranker.                                    *)
(***************************************************************************)
\* None
NoneV == <<-1>>

\* no suggestion call was made yet
NoCall == [called |-> FALSE, query |-> <<>>, items |-> <<>>]

\* str.lower() (ASCII letters)
Lower(s) == [i \in 1..Len(s) |-> IF s[i] \in 65..90 THEN s[i] + 32 ELSE s[i]]

\* sub in s (substring test)
IsSubstr(sub, s) ==
    \E i \in 0..(Len(s) - Len(sub)) : SubSeq(s, i + 1, i + Len(sub)) = sub

\* a < b for strings and for tuples of numbers: lexicographic
RECURSIVE SeqLess(_, _)
SeqLess(a, b) ==
    IF b = <<>> THEN FALSE
    ELSE IF a = <<>> THEN TRUE
    ELSE IF Head(a) # Head(b) THEN Head(a) < Head(b)
    ELSE SeqLess(Tail(a), Tail(b))

\* sorted() and list.sort() are stable: an element goes after the elements
\* whose key is not greater than its own.  l is a list of [key, val].
InsertStable(s, x) ==
    LET p == Cardinality({i \in 1..Len(s) : ~SeqLess(x.key, s[i].key)})
    IN  SubSeq(s, 1, p) \o <<x>> \o SubSeq(s, p + 1, Len(s))

RECURSIVE SortKeyed(_)
SortKeyed(l) ==
    IF l = <<>> THEN <<>>
    ELSE InsertStable(SortKeyed(SubSeq(l, 1, Len(l) - 1)), l[Len(l)])

Vals(l) == [i \in 1..Len(l) |-> l[i].val]

\* [x for x in l if x in S], for a set S of list elements
RECURSIVE Filter(_, _)
Filter(l, S) ==
    IF l = <<>> THEN <<>>
    ELSE IF Head(l) \in S THEN <<Head(l)>> \o Filter(Tail(l), S)
    ELSE Filter(Tail(l), S)

\* the apps of the model: "a" (bundle "x"), "Ab" (bundle "y"), "B" and "A"
\* (no bundle identifier)
KnownApps ==
    { [name |-> <<97>>, bundle |-> <<120>>],
      [name |-> <<65, 98>>, bundle |-> <<121>>],
      [name |-> <<66>>, bundle |-> NoneV],
      [name |-> <<65>>, bundle |-> NoneV] }

\* the bundle identifiers a history holds: "x", "y"
AppIds == {<<120>>, <<121>>}

\* the bundle names on disk: "AB", "ab", "Cb"
InstalledNames == {<<65, 66>>, <<97, 98>>, <<67, 98>>}

\* the queries tried: "", "A", "b"
Queries == {<<>>, <<65>>, <<98>>}

\* the OS's lists of processes: each a known app with its own handle (pid)
RunningLists ==
    UNION {{[i \in 1..k |-> [name |-> f[i].name, bundle |-> f[i].bundle, pid |-> i]] :
              f \in [1..k -> KnownApps]} : k \in 0..MaxRunning}

\* get_running_apps, for the list os_list that runningApplications() returns
get_running_apps(os_list) ==
    [i \in 1..Len(os_list) |->
        [name |-> os_list[i].name,
         name_lower |-> NoneV,
         bundle_id |-> IF os_list[i].bundle = NoneV THEN <<>> ELSE os_list[i].bundle,
         app_obj |-> <<os_list[i].pid>>,
         path |-> NoneV,
         is_running |-> TRUE]]

\* The application directories: 1 /System/Applications, 2 /Applications,
\* 3 ~/Applications.  A directory is missing or lists its bundles in the
\* order glob yields them.
DirStates ==
    {[exists |-> FALSE, entries |-> <<>>]}
        \cup {[exists |-> TRUE, entries |-> e] :
                e \in {l \in SeqsUpTo(InstalledNames, MaxPerDir) :
                          \A i, j \in 1..Len(l) : i # j => l[i] # l[j]}}

FsInputs == [1..3 -> DirStates]

app_dirs(v) == IF v = "mylauncher" THEN <<1, 2, 3>> ELSE <<2, 3>>

\* all the bundle paths in scan order: directory by directory
RECURSIVE ScanOrder(_, _)
ScanOrder(fs, dirs) ==
    IF dirs = <<>> THEN <<>>
    ELSE LET d == Head(dirs)
             here == IF fs[d].exists
                     THEN [i \in 1..Len(fs[d].entries) |->
                              [dir |-> d, name |-> fs[d].entries[i]]]
                     ELSE <<>>
         IN  here \o ScanOrder(fs, Tail(dirs))

\* a scan loop that remembers the names as written, not lowercased
RECURSIVE DedupeExactNames(_, _, _)
DedupeExactNames(paths, seen_names, v) ==
    IF paths = <<>> THEN <<>>
    ELSE LET p == Head(paths)
         IN  IF p.name \in seen_names
             THEN DedupeExactNames(Tail(paths), seen_names, v)
             ELSE <<[name |-> p.name,
                     name_lower |-> IF v = "mylauncher" THEN Lower(p.name) ELSE NoneV,
                     bundle_id |-> NoneV,
                     app_obj |-> NoneV,
                     path |-> <<p.dir>> \o p.name,
                     is_running |-> FALSE]>>
                  \o DedupeExactNames(Tail(paths), seen_names \cup {p.name}, v)

\* the loop over app_dir.glob('*.app'): skip a name seen before (lowercased)
RECURSIVE Dedupe(_, _, _)
Dedupe(paths, seen_names, v) ==
    IF paths = <<>> THEN <<>>
    ELSE LET p == Head(paths)
             name_lower == Lower(p.name)
         IN  IF name_lower \in seen_names
             THEN Dedupe(Tail(paths), seen_names, v)
             ELSE <<[name |-> p.name,
                     name_lower |-> IF v = "mylauncher" THEN name_lower ELSE NoneV,
                     bundle_id |-> NoneV,
                     app_obj |-> NoneV,
                     path |-> <<p.dir>> \o p.name,
                     is_running |-> FALSE]>>
                  \o Dedupe(Tail(paths), seen_names \cup {name_lower}, v)

\* apps.sort(key=lambda x: x['name_lower'])
SortByNameLower(apps) ==
    Vals(SortKeyed([i \in 1..Len(apps) |-> [key |-> Lower(apps[i].name), val |-> apps[i]]]))

\* get_installed_apps: mylauncher scans three directories and sorts, mycli
\* scans two and does not sort
get_installed_apps(fs, v) ==
    LET apps == Dedupe(ScanOrder(fs, app_dirs(v)), {}, v)
    IN  IF v = "mylauncher" THEN SortByNameLower(apps) ELSE apps

InstalledLists(v) == {get_installed_apps(fs, v) : fs \in FsInputs}

\* _installed_apps_cache = None
NoCache == [filled |-> FALSE, apps |-> <<>>]

\* the values of the scan variables where no directory is scanned
ScanIdle ==
    /\ disk = [d \in 1..3 |-> [exists |-> FALSE, entries |-> <<>>]]
    /\ installed_apps_cache = NoCache

\* get_app_recency
get_app_recency(bundle_id) == get_recency(bundle_id)

\* sorted(apps, key=lambda x: (get_app_recency(x['bundle_id']), x['name'].lower()))
SortByRecencyNameOnly(apps) ==
    Vals(SortKeyed([i \in 1..Len(apps) |->
        [key |-> Lower(apps[i].name), val |-> apps[i]]]))

SortByRecency(apps) ==
    Vals(SortKeyed([i \in 1..Len(apps) |->
        [key |-> <<get_app_recency(apps[i].bundle_id)>> \o Lower(apps[i].name),
         val |-> apps[i]]]))

\* running_names = {app['name'].lower() for app in running}
RunningNamesRaw(run) == {run[i].name : i \in 1..Len(run)}

RunningNamesOf(run) == {Lower(run[i].name) : i \in 1..Len(run)}

\* filter_lower = filter_text.lower()
FilterLowerRaw(filter_text) == filter_text

FilterLower(filter_text) == Lower(filter_text)

\* mylauncher: get_all_app_suggestions
get_all_app_suggestions(run, inst, filter_text) ==
    LET running_names == RunningNamesOf(run)
        filter_lower == FilterLower(filter_text)
        installed_filtered ==
            IF filter_lower # <<>>
            THEN Filter(inst, {a \in Range(inst) :
                    a.name_lower \notin running_names /\ IsSubstr(filter_lower, a.name_lower)})
            ELSE Filter(inst, {a \in Range(inst) : a.name_lower \notin running_names})
        running_filtered ==
            IF filter_lower # <<>>
            THEN Filter(run, {a \in Range(run) : IsSubstr(filter_lower, Lower(a.name))})
            ELSE run
    IN  SortByRecency(running_filtered) \o installed_filtered

\* recency_map = {bid: i for i, bid in enumerate(_app_history._items)} and
\* recency_map.get(bundle_id, 999): a later entry of the list overwrites an
\* earlier one under the same key, and every entry of the list is a key
recency_map_get(bundle_id) ==
    LET at == {i \in 1..Len(hitems) : hitems[i] = bundle_id}
    IN  IF at = {} THEN Sentinel
        ELSE (CHOOSE i \in at : \A j \in at : j <= i) - 1

\* sorted(running, key=lambda x: (recency_map.get(x['bundle_id'], 999), x['name'].lower()))
SortByRecencyMap(apps) ==
    Vals(SortKeyed([i \in 1..Len(apps) |->
        [key |-> <<recency_map_get(apps[i].bundle_id)>> \o Lower(apps[i].name),
         val |-> apps[i]]]))

\* mylauncher: get_running_app_suggestions
get_running_app_suggestions(run, filter_text) ==
    LET filter_lower == FilterLower(filter_text)
        filtered ==
            IF filter_lower # <<>>
            THEN Filter(run, {a \in Range(run) : IsSubstr(filter_lower, Lower(a.name))})
            ELSE run
    IN  SortByRecencyMap(filtered)

\* mycli: get_app_suggestions
get_app_suggestions(run, inst, filter_text) ==
    LET running_names == RunningNamesOf(run)
        installed_filtered ==
            Filter(inst, {a \in Range(inst) : Lower(a.name) \notin running_names})
        combined == run \o installed_filtered
        all_apps ==
            IF filter_text # <<>>
            THEN Filter(combined, {a \in Range(combined) :
                    IsSubstr(FilterLower(filter_text), Lower(a.name))})
            ELSE combined
        running_apps == SortByRecency(Filter(all_apps, {a \in Range(all_apps) : a.is_running}))
        other_apps == SortByNameLower(Filter(all_apps, {a \in Range(all_apps) : ~a.is_running}))
    IN  running_apps \o other_apps

\* the suggestion list of the package at hand
Suggestions(run, inst, q) ==
    IF variant = "mylauncher" THEN get_all_app_suggestions(run, inst, q)
    ELSE get_app_suggestions(run, inst, q)

(***************************************************************************)
(* Command executor: execute_command.                                      *)
(***************************************************************************)
\* the exit statuses tried: 0, 1, 2, 127, and -15 (ended by SIGTERM)
ExitStatuses == {0, 1, 2, 127, -15}

\* what a command does: the status its shell exits with, whether its output
\* decodes as text, whether it leaves children in its process group
Commands ==
    [status : ExitStatuses, decodable : BOOLEAN, forks : BOOLEAN]

NoResult == [returned |-> FALSE, success |-> FALSE, return_code |-> 0, stderr |-> ""]

ExecutionResult(success, stderr, return_code) ==
    [returned |-> TRUE, success |-> success, return_code |-> return_code, stderr |-> stderr]

\* the values of the executor's variables when no command is run
ExecIdle ==
    /\ epc = "idle"
    /\ cmd = [status |-> 0, decodable |-> TRUE, forks |-> FALSE]
    /\ has_timeout = TRUE
    /\ process = "None"
    /\ children = "none"
    /\ exit_status = 0
    /\ in_time = FALSE
    /\ timed_out = FALSE
    /\ result = NoResult

\* success=(process.returncode == 0)
SuccessOf(returncode) == returncode = 0

(***************************************************************************)
(* The menu-bar application: MyLauncherApp.                                *)
(***************************************************************************)
\* the places show_command_popup is called from: the hotkey and the menu item
Callers == {"hotkey", "menu"}

\* the commands a user types in a popup: "a", "b" (run_command keeps a command
\* only if it is non-empty once stripped)
PopupCommands == {<<97>>, <<98>>}

\* how a popup ends: Escape, an app chosen, or a shell command run
PopupOutcomes ==
    {[kind |-> "cancel", command |-> <<>>], [kind |-> "app", command |-> <<>>]}
        \cup {[kind |-> "cmd", command |-> c] : c \in PopupCommands}

NoOutcome == [kind |-> "none", command |-> <<>>]

NoCallYet == [pc |-> "idle", proc |-> 0]

NoWaiter == [pc |-> "none", target |-> 0]

\* the main thread runs no callback
UiIdle == [doing |-> "idle", command |-> <<>>]

\* get_recent(10) in _build_recent_menu
RecentLimit == 10

\* the module-level get_recent(limit): a slice of the list this process holds
get_recent(limit) == Take(hitems, limit)

\* _build_recent_menu: one item per recent command
BuildRecentMenu == get_recent(RecentLimit)

\* with self._popup_lock: the lock can be taken
LockFree == popup_lock = "free"

\* the guard of show_command_popup
PopupActiveNoLivenessTest == FALSE

PopupActive == popup_process # 0 /\ popup_process \in alive

\* the values of the application's variables where no application runs
AppIdle ==
    /\ popup_lock = "free"
    /\ popup_process = 0
    /\ started = 0
    /\ alive = {}
    /\ outcome = [p \in 1..MaxPopups |-> NoOutcome]
    /\ calls = [c \in Callers |-> NoCallYet]
    /\ waiters = [p \in 1..MaxPopups |-> NoWaiter]
    /\ menu = <<>>
    /\ ui = UiIdle

(***************************************************************************)
(* The global hotkey: HotkeyManager and its event tap.                     *)
(***************************************************************************)
\* the modifier keys told apart
Modifiers == {"cmd", "ctrl", "shift"}

\* virtual key codes: 2 is D and 0 is A on a US layout, 48 is Tab
Keys == {0, 2, 48}

NoKey == -1

\* the chords tried: the fallback of config.py, the one of the config template
Chords == {[mods |-> {"cmd", "ctrl"}, vk |-> 2], [mods |-> {"cmd", "shift"}, vk |-> 48]}

\* a test that allows no modifier beyond the configured ones
has_exactly_mods(flags) == hk_cfg.mods = flags

\* (flags & self._mod_flags) == self._mod_flags
has_required_mods(flags) == hk_cfg.mods \subseteq flags

\* the test of the tap's callback on a key-down event
HotkeyMatches(keycode, flags) == keycode = hk_cfg.vk /\ has_required_mods(flags)

\* the callback has got no event yet
NoEvent == [called |-> FALSE, type |-> "none", keycode |-> NoKey, flags |-> {},
            returned |-> "none", scheduled |-> FALSE]

\* the values of the hotkey variables where no listener runs
HotIdle ==
    /\ hk_last = NoEvent
    /\ hk_cfg = [mods |-> {}, vk |-> NoKey]
    /\ hk_mods = {}
    /\ hk_held = NoKey
    /\ hk_downs = 0
    /\ hk_calls = 0

(***************************************************************************)
(* User configuration: user_config.get over CONFIG_FILE.                   *)
(***************************************************************************)
\* every option config.py reads: the default it passes to get, and the value
\* the DEFAULT_CONFIG template gives it
Options ==
    {[section |-> "behavior", key |-> "max_command_history", default |-> "100", template |-> "100"],
     [section |-> "behavior", key |-> "max_app_history", default |-> "50", template |-> "50"],
     [section |-> "hotkey", key |-> "modifiers", default |-> "cmd+ctrl", template |-> "cmd+shift"],
     [section |-> "hotkey", key |-> "key", default |-> "d", template |-> "tab"],
     [section |-> "behavior", key |-> "command_timeout", default |-> "10", template |-> "10"],
     [section |-> "popup", key |-> "width", default |-> "500", template |-> "500"],
     [section |-> "popup", key |-> "height", default |-> "350", template |-> "350"],
     [section |-> "popup", key |-> "font_family", default |-> "Menlo", template |-> "Menlo"],
     [section |-> "popup", key |-> "font_size_input", default |-> "14", template |-> "14"],
     [section |-> "popup", key |-> "font_size_table", default |-> "12", template |-> "12"]}

\* an option as the file names it
Name(o) == <<o.section, o.key>>

OptionNames == {Name(o) : o \in Options}

Absent == [present |-> FALSE, value |-> ""]

Value(v) == [present |-> TRUE, value |-> v]

\* a file that tomllib parses: what it holds for each option
Toml(t) == [kind |-> "toml", table |-> t]

MissingFile == [kind |-> "missing", table |-> [n \in OptionNames |-> Absent]]

UnparsableFile == [kind |-> "unparsable", table |-> [n \in OptionNames |-> Absent]]

\* DEFAULT_CONFIG
DEFAULT_CONFIG == Toml([n \in OptionNames |-> Value((CHOOSE o \in Options : Name(o) = n).template)])

\* the template with the options of gone removed and those of edited changed
EditedConfig(gone, edited) ==
    Toml([n \in OptionNames |->
            IF n \in gone THEN Absent
            ELSE IF n \in edited THEN Value("user")
            ELSE DEFAULT_CONFIG.table[n]])

\* the files tried
ConfigFiles ==
    {MissingFile, UnparsableFile}
        \cup {EditedConfig(gone, edited) :
                 gone \in {g \in SUBSET OptionNames : Cardinality(g) <= MaxEdited},
                 edited \in {e \in SUBSET OptionNames : Cardinality(e) <= MaxEdited}}

\* load_config once the file is there: the table, or {} if it does not parse
load_config(file) ==
    IF file.kind = "toml" THEN file.table ELSE [n \in OptionNames |-> Absent]

\* config.get(section, {}).get(key, default)
Lookup(table, o) ==
    IF table[Name(o)].present THEN table[Name(o)].value ELSE o.default

NoGet == [called |-> FALSE, option |-> <<"", "">>, value |-> "", regenerated |-> FALSE]

\* the values of the configuration variables where no configuration is read
CfgIdle ==
    /\ cfg_file = MissingFile
    /\ cfg_got = NoGet

(***************************************************************************)
(* The popup session: mylauncher/popup.py run_popup, mycli/popup.py        *)
(* run_popup and the modal panel of mycli/app.py show_command_popup.       *)
(***************************************************************************)
PopupKinds == {"mylauncher/popup.py", "mycli/popup.py", "mycli/app.py"}

\* str.strip()
RECURSIVE LStrip(_)
LStrip(s) == IF s # <<>> /\ IsSpace(Head(s)) THEN LStrip(Tail(s)) ELSE s

RECURSIVE RStrip(_)
RStrip(s) == IF s # <<>> /\ IsSpace(s[Len(s)]) THEN RStrip(SubSeq(s, 1, Len(s) - 1)) ELSE s

Strip(s) == RStrip(LStrip(s))

\* text.startswith(c) for a one-character prefix
StartsWith(s, c) == s # <<>> /\ s[1] = c

Gt == 62    \* ">"
At == 64    \* "@"

\* the texts the user leaves in the search field: "", "a", "z", " ", ">",
\* ">z", "> z ", "@C", "@z"
PopupTexts ==
    {<<>>, <<97>>, <<122>>, <<32>>, <<Gt>>, <<Gt, 122>>, <<Gt, 32, 122, 32>>,
     <<At, 67>>, <<At, 122>>}

\* result_app[0] = None, result_cmd[0] = None
NoApp == <<>>

\* run_popup (mylauncher): get_suggestions(text), with the apps loaded or not
get_suggestions_when(loaded, text) ==
    IF StartsWith(text, Gt) THEN <<>>
    ELSE IF ~loaded THEN <<>>
    ELSE IF StartsWith(text, At)
         THEN get_all_app_suggestions(get_running_apps(running), installed, Tail(text))
    ELSE get_running_app_suggestions(get_running_apps(running), text)

get_suggestions(text) == get_suggestions_when(apps_loaded, text)

\* update_list(new_items): the index the selection is clamped to
ClampedIdx(idx, new_items) ==
    IF idx >= Len(new_items)
    THEN (IF Len(new_items) - 1 > 0 THEN Len(new_items) - 1 ELSE 0)
    ELSE idx

\* update_list(new_items): how many buttons it makes; in command mode one
\* disabled button stands for the command
ButtonsFor(new_items, text) ==
    IF new_items = <<>> /\ StartsWith(text, Gt) THEN 1 ELSE Len(new_items)

\* run_command: the command the search text gives ("" for none)
CommandOf(text) ==
    LET stripped == Strip(text)
    IN  IF StartsWith(stripped, Gt) THEN Strip(Tail(stripped)) ELSE stripped

\* save_app_to_history(app.get("bundle_id") or app["name"])
BundleIdOrName(app) ==
    IF app.bundle_id = NoneV \/ app.bundle_id = <<>> THEN app.name ELSE app.bundle_id

\* the token the popup saves to the app history for the app it acts on
SavedAppToken(kind, app) ==
    IF kind = "mylauncher/popup.py" THEN BundleIdOrName(app)
    ELSE IF app.is_running THEN app.bundle_id
    ELSE BundleIdOrName(app)

\* focus_app(app["app_obj"]) or launch_app(app["path"])
AppAction(app) ==
    IF app.is_running THEN [do |-> "focus_app", what |-> app.app_obj]
    ELSE [do |-> "launch_app", what |-> app.path]

\* the values of the popup session's variables where no popup is shown
SessIdle ==
    /\ pk = "mylauncher/popup.py"
    /\ search_var = <<>>
    /\ current_items = <<>>
    /\ buttons = 0
    /\ selected_idx = 1
    /\ apps_loaded = FALSE
    /\ result_app = NoApp
    /\ result_cmd = NoneV
    /\ win = "open"
    /\ dismissed = "none"
    /\ late = FALSE
    /\ acts = <<>>
    /\ cmd_items = <<>>

(***************************************************************************)
(* The warm popup process: popup_worker.                                   *)
(***************************************************************************)
\* what the parent puts on command_queue: "show", "quit", anything else;
\* Eof stands for the parent closing its end (get raises EOFError)
Eof == "<eof>"
WorkerCommands == {"show", "quit", "hide"}

\* what popup_worker puts on result_queue after run_popup returned or raised
AnswerAlwaysDone(how) == "done"

Answer(how) == IF how = "returned" THEN "done" ELSE "error"

\* the values of the worker's variables where no worker runs
WorkIdle ==
    /\ command_queue = <<>>
    /\ result_queue = <<>>
    /\ worker = [pc |-> "get", ran |-> <<>>]
    /\ received = <<>>
    /\ sent = <<>>

(***************************************************************************)
(* The history store as a state machine.                                   *)
(***************************************************************************)
\* __init__: the state after construction from any file content
InitHistory ==
    /\ hcls \in {"CommandHistory", "AppHistory"}
    /\ hmax \in 1..MaxCap
    /\ hfile \in FileContents
    /\ hitems = Load(hfile, hmax)
    /\ lastOp = NoOp
    /\ variant = "mylauncher"
    /\ running = <<>>
    /\ installed = <<>>
    /\ shown = NoCall
    /\ ExecIdle
    /\ AppIdle
    /\ HotIdle
    /\ CfgIdle
    /\ ScanIdle
    /\ SessIdle
    /\ WorkIdle

\* add(token)
\* add(token), its write ending as how says: the guard returns early; on a
\* store that holds a string, remove or insert raises AttributeError
AddW(token, how) ==
    /\ IF Rejected(hcls, token)
       THEN /\ lastOp' = [op |-> "add", token |-> token, before |-> hitems,
                          write |-> "none"]
            /\ UNCHANGED <<hitems, hfile>>
       ELSE IF HoldsString
       THEN /\ lastOp' = [op |-> "add_raised", token |-> token, before |-> hitems,
                          write |-> "none"]
            /\ UNCHANGED <<hitems, hfile>>
       ELSE /\ lastOp' = [op |-> "add", token |-> token, before |-> hitems,
                          write |-> how]
            /\ hitems' = Added(hitems, token, hmax)
            /\ hfile' = Written(hfile, hitems', how)
    /\ UNCHANGED <<hcls, hmax>>
    /\ UNCHANGED exceptHist

\* add(token) where the file can be written
Add(token) == AddW(token, "ok")

NextHistory == \E token \in Tokens : Add(token)

SpecHistory == InitHistory /\ [][NextHistory]_vars

(***************************************************************************)
(* The store over every kind of backing file, with writes that may fail.   *)
(***************************************************************************)
\* the tokens tried: "", "a", a quote and a backslash, "e acute" and a newline
StoreTokens == {<<>>, <<97>>, <<34, 92>>, <<233, 10>>}

\* the files tried: no list at all, a string under the key ("", "a", "ls"),
\* a list of at most one token
StoreFiles ==
    {NoList(k) : k \in {"missing", "unreadable", "malformed", "notobject", "nokey", "scalar"}}
        \cup {[kind |-> "string", items |-> l] :
                 l \in {<<>>, <<<<97>>>>, <<<<108>>, <<115>>>>}}
        \cup {[kind |-> "list", items |-> l] : l \in SeqsUpTo(StoreTokens \ {<<>>}, 1)}

\* __init__ over any file
InitStore ==
    /\ hcls \in {"CommandHistory", "AppHistory"}
    /\ hmax \in 1..MaxCap
    /\ hfile \in StoreFiles
    /\ hitems = Load(hfile, hmax)
    /\ lastOp = NoOp
    /\ variant = "mylauncher"
    /\ running = <<>>
    /\ installed = <<>>
    /\ shown = NoCall
    /\ ExecIdle
    /\ AppIdle
    /\ HotIdle
    /\ CfgIdle
    /\ ScanIdle
    /\ SessIdle
    /\ WorkIdle

NextStore == \E token \in StoreTokens, how \in WriteOutcomes : AddW(token, how)

SpecStore == InitStore /\ [][NextStore]_vars

(***************************************************************************)
(* The ranker as a state machine: an inventory, a history and a cached     *)
(* scan are given; each step is one suggestion call.                       *)
(***************************************************************************)
InitSuggest ==
    /\ variant \in {"mylauncher", "mycli"}
    /\ hcls = "AppHistory"
    /\ hmax = MaxCap
    /\ hfile \in {[kind |-> "list", items |-> l] : l \in SeqsUpTo(AppIds, MaxFileLen)}
    /\ hitems = Load(hfile, hmax)
    /\ lastOp = NoOp
    /\ running \in RunningLists
    /\ installed \in InstalledLists(variant)
    /\ shown = NoCall
    /\ ExecIdle
    /\ AppIdle
    /\ HotIdle
    /\ CfgIdle
    /\ ScanIdle
    /\ SessIdle
    /\ WorkIdle

\* get_all_app_suggestions(q) / get_app_suggestions(q)
Suggest(q) ==
    /\ shown' = [called |-> TRUE, query |-> q,
                 items |-> Suggestions(get_running_apps(running), installed, q)]
    /\ UNCHANGED <<variant, running, installed>>
    /\ UNCHANGED exceptSugg

NextSuggest == \E q \in Queries : Suggest(q)

SpecSuggest == InitSuggest /\ [][NextSuggest]_vars

(***************************************************************************)
(* The ranker of running apps as a state machine: the history is loaded    *)
(* from a file that a person may have edited; each step is one call of     *)
(* get_running_app_suggestions.                                            *)
(***************************************************************************)
\* the entries an edited history file holds: "", "x", "y"
EditedIds == AppIds \cup {<<>>}

InitRunning ==
    /\ variant = "mylauncher"
    /\ hcls = "AppHistory"
    /\ hmax = MaxCap
    /\ hfile \in {[kind |-> "list", items |-> l] : l \in SeqsUpTo(EditedIds, MaxFileLen)}
    /\ hitems = Load(hfile, hmax)
    /\ lastOp = NoOp
    /\ running \in RunningLists
    /\ installed = <<>>
    /\ shown = NoCall
    /\ ExecIdle
    /\ AppIdle
    /\ HotIdle
    /\ CfgIdle
    /\ ScanIdle
    /\ SessIdle
    /\ WorkIdle

\* get_running_app_suggestions(q)
SuggestRunning(q) ==
    /\ shown' = [called |-> TRUE, query |-> q,
                 items |-> get_running_app_suggestions(get_running_apps(running), q)]
    /\ UNCHANGED <<variant, running, installed>>
    /\ UNCHANGED exceptSugg

NextRunning == \E q \in Queries : SuggestRunning(q)

SpecRunning == InitRunning /\ [][NextRunning]_vars

(***************************************************************************)
(* The scan of the application directories as a state machine: the         *)
(* directories are given, each step is one call of get_installed_apps.     *)
(***************************************************************************)
InitScan ==
    /\ variant = "mylauncher"
    /\ hcls = "AppHistory"
    /\ hmax = MaxCap
    /\ hfile = [kind |-> "list", items |-> <<>>]
    /\ hitems = <<>>
    /\ lastOp = NoOp
    /\ running = <<>>
    /\ installed = <<>>
    /\ shown = NoCall
    /\ disk \in FsInputs
    /\ installed_apps_cache = NoCache
    /\ ExecIdle
    /\ AppIdle
    /\ HotIdle
    /\ CfgIdle
    /\ SessIdle
    /\ WorkIdle

\* get_installed_apps(use_cache): the cached list if there is one and it is
\* asked for, else a scan whose result is cached
GetInstalledApps(use_cache) ==
    /\ IF use_cache /\ installed_apps_cache.filled
       THEN /\ installed' = installed_apps_cache.apps
            /\ UNCHANGED installed_apps_cache
       ELSE /\ installed' = get_installed_apps(disk, variant)
            /\ installed_apps_cache' = [filled |-> TRUE, apps |-> installed']
    /\ UNCHANGED <<variant, running, shown, disk>>
    /\ UNCHANGED exceptScanSugg

NextScan == \E use_cache \in BOOLEAN : GetInstalledApps(use_cache)

SpecScan == InitScan /\ [][NextScan]_vars

(***************************************************************************)
(* The popup session as a state machine: one popup from the moment its     *)
(* window shows until the result is handled.  The handlers of the event    *)
(* loop are the actions; the deferred load is one of them.                 *)
(***************************************************************************)
\* the running apps of a session: none, one known app, or "Ab" before "a"
SessionRunning ==
    {r \in RunningLists : Len(r) <= 1}
        \cup {<<[name |-> <<65, 98>>, bundle |-> <<121>>, pid |-> 1],
                [name |-> <<97>>, bundle |-> <<120>>, pid |-> 2]>>}

\* the installed apps of a session: none, or "Cb" in /Applications
SessionInstalled(v) ==
    {<<>>,
     get_installed_apps([d \in 1..3 |->
                            IF d = 2 THEN [exists |-> TRUE, entries |-> <<<<67, 98>>>>]
                            ELSE [exists |-> FALSE, entries |-> <<>>]], v)}

\* the app histories of a session: empty, or "y"
SessionHistories == {<<>>, <<<<121>>>>}

InitSession ==
    /\ pk \in PopupKinds
    /\ variant = IF pk = "mylauncher/popup.py" THEN "mylauncher" ELSE "mycli"
    /\ hcls = "AppHistory"
    /\ hmax = MaxCap
    /\ hfile \in {[kind |-> "list", items |-> l] : l \in SessionHistories}
    /\ hitems = Load(hfile, hmax)
    /\ lastOp = NoOp
    /\ running \in SessionRunning
    /\ installed \in SessionInstalled(variant)
    /\ shown = NoCall
    /\ search_var = <<>>
    /\ apps_loaded = (pk = "mycli/app.py")
    /\ current_items = IF pk = "mycli/app.py"
                       THEN get_app_suggestions(get_running_apps(running), installed, <<>>)
                       ELSE <<>>
    /\ buttons = Len(current_items)
    /\ selected_idx = IF pk = "mylauncher/popup.py" THEN 1
                      ELSE IF pk = "mycli/app.py" /\ current_items = <<>> THEN -1
                      ELSE 0
    /\ result_app = NoApp
    /\ result_cmd = NoneV
    /\ win = "open"
    /\ dismissed = "none"
    /\ late = FALSE
    /\ acts = <<>>
    /\ cmd_items = <<>>
    /\ ExecIdle
    /\ AppIdle
    /\ HotIdle
    /\ CfgIdle
    /\ ScanIdle
    /\ WorkIdle

\* the event loop runs: the window is shown, or withdrawn by close_popup
\* with its destroy still to come
LoopRuns == win \in {"open", "closing"}

\* a handler that runs after close_popup is noted
NoteLate == late' = (late \/ win = "closing")

\* close_popup (hide, destroy the buttons, schedule the destroy), root.quit()
\* and NSApp.stopModal()
Closed(by) ==
    /\ win' = IF pk = "mylauncher/popup.py" THEN "closing" ELSE "ended"
    /\ buttons' = IF pk = "mylauncher/popup.py" THEN 0 ELSE buttons
    /\ dismissed' = IF dismissed = "none" THEN by ELSE dismissed

\* load_apps_async (mylauncher), load_initial_items (mycli/popup.py)
LoadApps ==
    /\ LoopRuns
    /\ pk # "mycli/app.py"
    /\ ~apps_loaded
    /\ apps_loaded' = TRUE
    /\ IF pk = "mylauncher/popup.py"
       THEN IF search_var = <<>>
            THEN LET new_items ==
                        get_running_app_suggestions(get_running_apps(running), <<>>)
                 IN  /\ current_items' = new_items
                     /\ selected_idx' = ClampedIdx(selected_idx, new_items)
                     /\ buttons' = ButtonsFor(new_items, search_var)
            ELSE UNCHANGED <<current_items, selected_idx, buttons>>
       ELSE /\ current_items' = get_app_suggestions(get_running_apps(running), installed, <<>>)
            /\ buttons' = Len(current_items')
            /\ UNCHANGED selected_idx
    /\ UNCHANGED <<pk, search_var, result_app, result_cmd, win, dismissed, late, acts,
                   cmd_items>>
    /\ UNCHANGED exceptSess

\* on_search / on_search_changed / controlTextDidChange_: the text changed to t
Type(t) ==
    /\ LoopRuns
    /\ t # search_var
    /\ search_var' = t
    /\ IF pk = "mylauncher/popup.py"
       THEN LET new_items == get_suggestions(t)
            IN  /\ current_items' = new_items
                /\ selected_idx' = ClampedIdx(0, new_items)
                /\ buttons' = ButtonsFor(new_items, t)
       ELSE LET new_items == get_app_suggestions(get_running_apps(running), installed, t)
            IN  /\ current_items' = new_items
                /\ selected_idx' = IF pk = "mycli/app.py" /\ new_items = <<>> THEN -1 ELSE 0
                /\ buttons' = Len(new_items)
    /\ NoteLate
    /\ UNCHANGED <<pk, apps_loaded, result_app, result_cmd, win, dismissed, acts, cmd_items>>
    /\ UNCHANGED exceptSess

\* on_up / on_arrow_up / moveUp:
Up ==
    /\ LoopRuns
    /\ selected_idx' = IF selected_idx > 0 THEN selected_idx - 1 ELSE selected_idx
    /\ NoteLate
    /\ UNCHANGED <<pk, search_var, current_items, buttons, apps_loaded, result_app,
                   result_cmd, win, dismissed, acts, cmd_items>>
    /\ UNCHANGED exceptSess

\* on_down / on_arrow_down (against len(buttons)) / moveDown: (against
\* len(suggestions))
Down ==
    /\ LoopRuns
    /\ LET last == IF pk = "mycli/app.py" THEN Len(current_items) - 1 ELSE buttons - 1
       IN  selected_idx' = IF selected_idx < last THEN selected_idx + 1 ELSE selected_idx
    /\ NoteLate
    /\ UNCHANGED <<pk, search_var, current_items, buttons, apps_loaded, result_app,
                   result_cmd, win, dismissed, acts, cmd_items>>
    /\ UNCHANGED exceptSess

\* select(idx) / select_item(idx)
select(idx, by) ==
    IF 0 <= idx /\ idx < Len(current_items)
    THEN /\ result_app' = <<current_items[idx + 1]>>
         /\ Closed(by)
    ELSE UNCHANGED <<result_app, win, buttons, dismissed>>

\* run_command (mylauncher) / run_as_command (mycli/popup.py)
run_command(by) ==
    LET c == IF pk = "mylauncher/popup.py" THEN CommandOf(search_var)
             ELSE Strip(search_var)
    IN  IF c # <<>>
        THEN /\ result_cmd' = c
             /\ Closed(by)
        ELSE UNCHANGED <<result_cmd, win, buttons, dismissed>>

\* on_enter; in the modal panel controlTextDidEndEditing_
Enter ==
    /\ LoopRuns
    /\ IF pk = "mycli/app.py"
       THEN /\ result_app' =
                  IF 0 <= selected_idx /\ selected_idx < Len(current_items)
                  THEN <<current_items[selected_idx + 1]>>
                  ELSE NoApp
            /\ Closed("enter")
            /\ UNCHANGED result_cmd
       ELSE IF current_items # <<>> /\ selected_idx < Len(current_items)
            THEN /\ select(selected_idx, "enter")
                 /\ UNCHANGED result_cmd
            ELSE /\ run_command("enter")
                 /\ UNCHANGED result_app
    /\ NoteLate
    /\ UNCHANGED <<pk, search_var, current_items, selected_idx, apps_loaded, acts,
                   cmd_items>>
    /\ UNCHANGED exceptSess

\* a click on item button i (command=lambda idx=i: select(idx))
Click(i) ==
    /\ LoopRuns
    /\ pk # "mycli/app.py"
    /\ i < buttons
    /\ i < Len(current_items)
    /\ select(i, "click")
    /\ NoteLate
    /\ UNCHANGED <<pk, search_var, current_items, selected_idx, apps_loaded, result_cmd,
                   acts, cmd_items>>
    /\ UNCHANGED exceptSess

\* a click on row i of the table of the modal panel: the row is selected
\* (tableViewSelectionDidChange_ does nothing more)
ClickRow(i) ==
    /\ LoopRuns
    /\ pk = "mycli/app.py"
    /\ i < Len(current_items)
    /\ i # selected_idx
    /\ selected_idx' = i
    /\ UNCHANGED <<pk, search_var, current_items, buttons, apps_loaded, result_app,
                   result_cmd, win, dismissed, late, acts, cmd_items>>
    /\ UNCHANGED exceptSess

\* Escape: close_popup() / on_escape / cancelOperation:
Escape ==
    /\ LoopRuns
    /\ Closed("escape")
    /\ NoteLate
    /\ UNCHANGED <<pk, search_var, current_items, selected_idx, apps_loaded, result_app,
                   result_cmd, acts, cmd_items>>
    /\ UNCHANGED exceptSess

\* the window is closed: Tk destroys the root (mylauncher), root.quit
\* (mycli/popup.py), windowWillClose_ (modal panel)
CloseWindow ==
    /\ win = "open"
    /\ win' = "ended"
    /\ dismissed' = "close"
    /\ UNCHANGED <<pk, search_var, current_items, buttons, selected_idx, apps_loaded,
                   result_app, result_cmd, late, acts, cmd_items>>
    /\ UNCHANGED exceptSess

\* safe_destroy: the scheduled root.destroy() ends the main loop
SafeDestroy ==
    /\ win = "closing"
    /\ win' = "ended"
    /\ UNCHANGED <<pk, search_var, current_items, buttons, selected_idx, apps_loaded,
                   result_app, result_cmd, dismissed, late, acts, cmd_items>>
    /\ UNCHANGED exceptSess

\* a result handling that looks at the command first
ResultBranchCommandFirst(app, command) ==
    IF command # <<>> THEN "cmd" ELSE IF app # NoApp THEN "app" ELSE "none"

\* if result_app[0]: ... elif result_cmd[0]: ... else: ...
ResultBranch(app, command) ==
    IF app # NoApp THEN "app" ELSE IF command # <<>> THEN "cmd" ELSE "none"

\* the code after the main loop / after runModalForWindow_: act on the result
HandleResult ==
    /\ win = "ended"
    /\ win' = "done"
    /\ LET command == IF pk = "mycli/app.py" THEN Strip(search_var)
                      ELSE IF result_cmd = NoneV THEN <<>>
                      ELSE result_cmd
           branch == ResultBranch(result_app, command)
       IN  IF branch = "app"
           THEN LET app == result_app[1]
                    token == SavedAppToken(pk, app)
                IN  /\ IF Rejected("AppHistory", token)
                       THEN /\ lastOp' = [op |-> "add", token |-> token,
                                          before |-> hitems, write |-> "none"]
                            /\ UNCHANGED <<hitems, hfile>>
                       ELSE /\ lastOp' = [op |-> "add", token |-> token,
                                          before |-> hitems, write |-> "ok"]
                            /\ hitems' = Added(hitems, token, hmax)
                            /\ hfile' = Written(hfile, hitems', "ok")
                    /\ acts' = Append(acts, AppAction(app))
                    /\ UNCHANGED cmd_items
           ELSE IF branch = "cmd"
           THEN /\ acts' = acts \o <<[do |-> "launch_command", what |-> command],
                                     [do |-> "restore_focus", what |-> <<>>]>>
                /\ cmd_items' = IF Rejected("CommandHistory", command) THEN cmd_items
                                ELSE Added(cmd_items, command, hmax)
                /\ UNCHANGED <<hitems, hfile, lastOp>>
           ELSE /\ acts' = Append(acts, [do |-> "restore_focus", what |-> <<>>])
                /\ UNCHANGED <<hitems, hfile, lastOp, cmd_items>>
    /\ UNCHANGED <<pk, search_var, current_items, buttons, selected_idx, apps_loaded,
                   result_app, result_cmd, dismissed, late>>
    /\ UNCHANGED <<hcls, hmax>>
    /\ UNCHANGED exceptSessHist

NextSession ==
    \/ LoadApps
    \/ \E t \in PopupTexts : Type(t)
    \/ Up
    \/ Down
    \/ Enter
    \/ \E i \in 0..2 : Click(i)
    \/ \E i \in 0..2 : ClickRow(i)
    \/ Escape
    \/ CloseWindow
    \/ SafeDestroy
    \/ HandleResult

SpecSession == InitSession /\ [][NextSession]_vars

(***************************************************************************)
(* popup_worker as a state machine: the parent puts commands on            *)
(* command_queue, the worker takes them one by one.                        *)
(***************************************************************************)
InitWorker ==
    /\ hcls = "AppHistory"
    /\ hmax = MaxCap
    /\ hfile = [kind |-> "list", items |-> <<>>]
    /\ hitems = <<>>
    /\ lastOp = NoOp
    /\ variant = "mylauncher"
    /\ running = <<>>
    /\ installed = <<>>
    /\ shown = NoCall
    /\ command_queue = <<>>
    /\ result_queue = <<>>
    /\ worker = [pc |-> "get", ran |-> <<>>]
    /\ received = <<>>
    /\ sent = <<>>
    /\ ExecIdle
    /\ AppIdle
    /\ HotIdle
    /\ CfgIdle
    /\ ScanIdle
    /\ SessIdle

\* the parent has closed its end of command_queue
ParentClosed == sent # <<>> /\ sent[Len(sent)] = Eof

\* the parent: command_queue.put(c)
Send(c) ==
    /\ Len(sent) < MaxSent
    /\ ~ParentClosed
    /\ command_queue' = Append(command_queue, c)
    /\ sent' = Append(sent, c)
    /\ UNCHANGED <<result_queue, worker, received>>
    /\ UNCHANGED exceptWork

\* the parent closes the queue or ends
ParentCloses ==
    /\ Len(sent) < MaxSent
    /\ ~ParentClosed
    /\ command_queue' = Append(command_queue, Eof)
    /\ sent' = Append(sent, Eof)
    /\ UNCHANGED <<result_queue, worker, received>>
    /\ UNCHANGED exceptWork

\* cmd = command_queue.get() and the tests on cmd: "quit" and EOFError leave
\* the loop, "show" calls run_popup, anything else goes round the loop
QueueGet ==
    /\ worker.pc = "get"
    /\ command_queue # <<>>
    /\ LET c == Head(command_queue)
       IN  /\ command_queue' = Tail(command_queue)
           /\ received' = Append(received, c)
           /\ worker' = [worker EXCEPT !.pc = IF c \in {"quit", Eof} THEN "ended"
                                               ELSE IF c = "show" THEN "run_popup"
                                               ELSE "get"]
    /\ UNCHANGED <<result_queue, sent>>
    /\ UNCHANGED exceptWork

\* run_popup() returns, or raises an Exception that the loop catches:
\* result_queue.put("done") / result_queue.put("error")
PopupDone(how) ==
    /\ worker.pc = "run_popup"
    /\ result_queue' = Append(result_queue, Answer(how))
    /\ worker' = [pc |-> "get", ran |-> Append(worker.ran, how)]
    /\ UNCHANGED <<command_queue, received, sent>>
    /\ UNCHANGED exceptWork

NextWorker ==
    \/ \E c \in WorkerCommands : Send(c)
    \/ ParentCloses
    \/ QueueGet
    \/ \E how \in {"returned", "raised"} : PopupDone(how)

SpecWorker == InitWorker /\ [][NextWorker]_vars

(***************************************************************************)
(* execute_command as a state machine: the call, the shell process and its *)
(* children run concurrently.                                              *)
(***************************************************************************)
InitExec ==
    /\ hcls = "CommandHistory"
    /\ hmax = MaxCap
    /\ hfile = NoList("missing")
    /\ hitems = <<>>
    /\ lastOp = NoOp
    /\ variant = "mylauncher"
    /\ running = <<>>
    /\ installed = <<>>
    /\ shown = NoCall
    /\ epc = "call"
    /\ cmd \in Commands
    /\ has_timeout \in BOOLEAN
    /\ process = "None"
    /\ children = "none"
    /\ exit_status = 0
    /\ in_time = FALSE
    /\ timed_out = FALSE
    /\ result = NoResult
    /\ AppIdle
    /\ HotIdle
    /\ CfgIdle
    /\ ScanIdle
    /\ SessIdle
    /\ WorkIdle

\* subprocess.Popen(...): the shell starts, or the launch raises
Popen ==
    /\ epc = "call"
    /\ \/ /\ process' = "running"
          /\ children' = IF cmd.forks THEN "running" ELSE "none"
          /\ epc' = "communicate"
       \/ /\ epc' = "except"
          /\ UNCHANGED <<process, children>>
    /\ UNCHANGED <<cmd, has_timeout, exit_status, in_time, timed_out, result>>
    /\ UNCHANGED exceptExec

\* the shell process exits by itself
ShellExits ==
    /\ process = "running"
    /\ process' = "zombie"
    /\ exit_status' = cmd.status
    /\ UNCHANGED <<epc, cmd, has_timeout, children, in_time, timed_out, result>>
    /\ UNCHANGED exceptExec

\* the children of the command exit
ChildrenExit ==
    /\ children = "running"
    /\ children' = "dead"
    /\ UNCHANGED <<epc, cmd, has_timeout, process, exit_status, in_time, timed_out, result>>
    /\ UNCHANGED exceptExec

\* process.communicate(timeout=timeout) returns: the pipes are at EOF and the
\* shell is reaped; decoding the output (text=True) may raise
CommunicateReturns ==
    /\ epc = "communicate"
    /\ process = "zombie"
    /\ children # "running"
    /\ process' = "reaped"
    /\ in_time' = TRUE
    /\ IF cmd.decodable
       THEN /\ result' = ExecutionResult(SuccessOf(exit_status), "", exit_status)
            /\ epc' = "returned"
       ELSE /\ epc' = "except"
            /\ UNCHANGED result
    /\ UNCHANGED <<cmd, has_timeout, children, exit_status, timed_out>>
    /\ UNCHANGED exceptExec

\* communicate raises subprocess.TimeoutExpired
TimeoutExpires ==
    /\ epc = "communicate"
    /\ has_timeout
    /\ process = "running" \/ children = "running"
    /\ epc' = "timeout"
    /\ timed_out' = TRUE
    /\ UNCHANGED <<cmd, has_timeout, process, children, exit_status, in_time, result>>
    /\ UNCHANGED exceptExec

\* communicate raises another exception while the command runs
CommunicateFaults ==
    /\ epc = "communicate"
    /\ process = "running"
    /\ epc' = "except"
    /\ UNCHANGED <<cmd, has_timeout, process, children, exit_status, in_time, timed_out,
                   result>>
    /\ UNCHANGED exceptExec

\* os.killpg(os.getpgid(process.pid), SIGKILL); process.wait() succeed
KillGroupAndWait ==
    /\ process \in {"running", "zombie"}
    /\ process' = "reaped"
    /\ exit_status' = IF process = "running" THEN -9 ELSE exit_status
    /\ children' = IF children = "running" THEN "dead" ELSE children

\* os.getpgid / os.killpg raise (no such process): the shell is reaped
\* already, or it has exited and the platform no longer finds it
KillRaises ==
    /\ process \in {"zombie", "reaped"}
    /\ UNCHANGED <<process, exit_status, children>>

\* except subprocess.TimeoutExpired
TimeoutHandler ==
    /\ epc = "timeout"
    /\ \/ /\ KillGroupAndWait
          /\ result' = ExecutionResult(FALSE, "timed out", -1)
          /\ epc' = "returned"
       \/ /\ KillRaises
          /\ epc' = "raised"
          /\ UNCHANGED result
    /\ UNCHANGED <<cmd, has_timeout, in_time, timed_out>>
    /\ UNCHANGED exceptExec

\* except Exception
ExceptionHandler ==
    /\ epc = "except"
    /\ \/ /\ process = "None"
          /\ UNCHANGED <<process, exit_status, children>>
       \/ KillGroupAndWait
       \/ KillRaises
    /\ result' = ExecutionResult(FALSE, "exception", -1)
    /\ epc' = "returned"
    /\ UNCHANGED <<cmd, has_timeout, in_time, timed_out>>
    /\ UNCHANGED exceptExec

NextExec ==
    \/ Popen
    \/ ShellExits
    \/ ChildrenExit
    \/ CommunicateReturns
    \/ TimeoutExpires
    \/ CommunicateFaults
    \/ TimeoutHandler
    \/ ExceptionHandler

SpecExec == InitExec /\ [][NextExec]_vars

(***************************************************************************)
(* The popup as a state machine: calls of show_command_popup (which the    *)
(* lock makes safe from any thread), the popup processes, and the          *)
(* _wait_for_popup threads.  hitems is the history the menu-bar process    *)
(* holds; a popup process imports its own history module and works on the  *)
(* file.                                                                   *)
(***************************************************************************)
\* the files a menu-bar process may start from
PopupFiles ==
    {NoList("missing")}
        \cup {[kind |-> "list", items |-> l] : l \in {<<>>, <<<<98>>>>, <<<<98>>, <<97>>>>}}

\* MyLauncherApp.__init__
InitPopup ==
    /\ hcls = "CommandHistory"
    /\ hmax = MaxCap
    /\ hfile \in PopupFiles
    /\ hitems = Load(hfile, hmax)
    /\ lastOp = NoOp
    /\ variant = "mylauncher"
    /\ running = <<>>
    /\ installed = <<>>
    /\ shown = NoCall
    /\ ExecIdle
    /\ popup_lock = "free"
    /\ popup_process = 0
    /\ started = 0
    /\ alive = {}
    /\ outcome = [p \in 1..MaxPopups |-> NoOutcome]
    /\ calls = [c \in Callers |-> NoCallYet]
    /\ waiters = [p \in 1..MaxPopups |-> NoWaiter]
    /\ menu = BuildRecentMenu
    /\ ui = UiIdle
    /\ HotIdle
    /\ CfgIdle
    /\ ScanIdle
    /\ SessIdle
    /\ WorkIdle

\* show_command_popup is called and takes the lock
Acquire(c) ==
    /\ calls[c].pc = "idle"
    /\ started < MaxPopups
    /\ LockFree
    /\ popup_lock' = c
    /\ calls' = [calls EXCEPT ![c].pc = "locked"]
    /\ UNCHANGED <<popup_process, started, alive, outcome, waiters, menu, ui>>
    /\ UNCHANGED <<histVars, exceptApp>>

\* if self._popup_process is not None and self._popup_process.is_alive(): return
CheckGuard(c) ==
    /\ calls[c].pc = "locked"
    /\ calls' = [calls EXCEPT ![c].pc = IF PopupActive THEN "return" ELSE "create"]
    /\ UNCHANGED <<popup_lock, popup_process, started, alive, outcome, waiters, menu, ui>>
    /\ UNCHANGED <<histVars, exceptApp>>

\* self._popup_process = multiprocessing.Process(target=run_popup); start()
StartPopup(c) ==
    /\ calls[c].pc = "create"
    /\ started' = started + 1
    /\ popup_process' = started'
    /\ alive' = alive \cup {started'}
    /\ calls' = [calls EXCEPT ![c] = [pc |-> "release", proc |-> started']]
    /\ UNCHANGED <<popup_lock, outcome, waiters, menu, ui>>
    /\ UNCHANGED <<histVars, exceptApp>>

\* the with block is left, by the return or at its end
Release(c) ==
    /\ calls[c].pc \in {"return", "release"}
    /\ popup_lock' = "free"
    /\ calls' = [calls EXCEPT ![c].pc = IF calls[c].pc = "return" THEN "idle" ELSE "thread"]
    /\ UNCHANGED <<popup_process, started, alive, outcome, waiters, menu, ui>>
    /\ UNCHANGED <<histVars, exceptApp>>

\* threading.Thread(target=self._wait_for_popup, daemon=True).start()
StartWaiter(c) ==
    /\ calls[c].pc = "thread"
    /\ waiters' = [waiters EXCEPT ![calls[c].proc] = [pc |-> "new", target |-> 0]]
    /\ calls' = [calls EXCEPT ![c].pc = "idle"]
    /\ UNCHANGED <<popup_lock, popup_process, started, alive, outcome, menu, ui>>
    /\ UNCHANGED <<histVars, exceptApp>>

\* _wait_for_popup reads self._popup_process and starts to join it
WaiterReads(w) ==
    /\ waiters[w].pc = "new"
    /\ waiters' = [waiters EXCEPT ![w] =
                      IF popup_process # 0
                      THEN [pc |-> "join", target |-> popup_process]
                      ELSE [pc |-> "done", target |-> 0]]
    /\ UNCHANGED <<popup_lock, popup_process, started, alive, outcome, calls, menu, ui>>
    /\ UNCHANGED <<histVars, exceptApp>>

\* join() returns once the process has ended; _refresh_recent_menu()
WaiterRefreshes(w) ==
    /\ waiters[w].pc = "join"
    /\ waiters[w].target \notin alive
    /\ menu' = BuildRecentMenu
    /\ waiters' = [waiters EXCEPT ![w].pc = "done"]
    /\ UNCHANGED <<popup_lock, popup_process, started, alive, outcome, calls, ui>>
    /\ UNCHANGED <<histVars, exceptApp>>

\* run_popup ends in the popup process: the window is closed and the result
\* handled; for a command, launch_command and save_command on the history
\* that the popup process has just loaded from the file
PopupEnds(p, out) ==
    /\ p \in alive
    /\ alive' = alive \ {p}
    /\ outcome' = [outcome EXCEPT ![p] = out]
    /\ IF out.kind = "cmd"
       THEN hfile' = Saved(Added(Load(hfile, hmax), out.command, hmax))
       ELSE UNCHANGED hfile
    /\ UNCHANGED <<hcls, hmax, hitems, lastOp>>
    /\ UNCHANGED <<popup_lock, popup_process, started, calls, waiters, menu, ui>>
    /\ UNCHANGED exceptApp

NextPopup ==
    \/ \E c \in Callers : Acquire(c)
    \/ \E c \in Callers : CheckGuard(c)
    \/ \E c \in Callers : StartPopup(c)
    \/ \E c \in Callers : Release(c)
    \/ \E c \in Callers : StartWaiter(c)
    \/ \E w \in 1..MaxPopups : WaiterReads(w)
    \/ \E w \in 1..MaxPopups : WaiterRefreshes(w)
    \/ \E p \in 1..MaxPopups, out \in PopupOutcomes : PopupEnds(p, out)

SpecPopup == InitPopup /\ [][NextPopup]_vars

(***************************************************************************)
(* The Recent Commands menu as a state machine: the main thread of the     *)
(* menu-bar process runs the callbacks of the menu items, execute_command  *)
(* runs inside the callback; launch_command is the detached variant.       *)
(***************************************************************************)
InitMenu ==
    /\ hcls = "CommandHistory"
    /\ hmax = MaxCap
    /\ hfile \in PopupFiles
    /\ hitems = Load(hfile, hmax)
    /\ lastOp = NoOp
    /\ variant = "mylauncher"
    /\ running = <<>>
    /\ installed = <<>>
    /\ shown = NoCall
    /\ ExecIdle
    /\ popup_lock = "free"
    /\ popup_process = 0
    /\ started = 0
    /\ alive = {}
    /\ outcome = [p \in 1..MaxPopups |-> NoOutcome]
    /\ calls = [c \in Callers |-> NoCallYet]
    /\ waiters = [p \in 1..MaxPopups |-> NoWaiter]
    /\ menu = BuildRecentMenu
    /\ ui = UiIdle
    /\ HotIdle
    /\ CfgIdle
    /\ ScanIdle
    /\ SessIdle
    /\ WorkIdle

\* no call of the executor is under way
ExecutorFree == epc \in {"idle", "returned", "raised", "launched"}

\* a Recent Commands item is clicked: its callback runs on the main thread and
\* calls _execute_and_notify(command), which calls execute_command(command)
ClickRecent(i, what) ==
    /\ ui = UiIdle
    /\ ExecutorFree
    /\ i \in 1..Len(menu)
    /\ ui' = [doing |-> "execute_command", command |-> menu[i]]
    /\ epc' = "call"
    /\ cmd' = what
    /\ has_timeout' = TRUE
    /\ process' = "None"
    /\ children' = "none"
    /\ exit_status' = 0
    /\ in_time' = FALSE
    /\ timed_out' = FALSE
    /\ result' = NoResult
    /\ UNCHANGED <<popup_lock, popup_process, started, alive, outcome, calls, waiters, menu>>
    /\ UNCHANGED <<histVars, suggVars, hotVars, cfgVars, scanVars, sessVars, workVars>>

\* execute_command has returned: save_command, _refresh_recent_menu, notify
ExecuteAndNotifyEnds ==
    /\ ui.doing = "execute_command"
    /\ epc = "returned"
    /\ lastOp' = [op |-> "add", token |-> ui.command, before |-> hitems,
                  write |-> IF Rejected(hcls, ui.command) THEN "none" ELSE "ok"]
    /\ IF Rejected(hcls, ui.command)
       THEN UNCHANGED <<hitems, hfile>>
       ELSE /\ hitems' = Added(hitems, ui.command, hmax)
            /\ hfile' = Saved(hitems')
    /\ menu' = Take(hitems', RecentLimit)
    /\ ui' = UiIdle
    /\ UNCHANGED <<hcls, hmax>>
    /\ UNCHANGED <<popup_lock, popup_process, started, alive, outcome, calls, waiters>>
    /\ UNCHANGED exceptApp

\* execute_command has raised: the exception leaves the callback
CallbackRaises ==
    /\ ui.doing = "execute_command"
    /\ epc = "raised"
    /\ ui' = UiIdle
    /\ UNCHANGED <<popup_lock, popup_process, started, alive, outcome, calls, waiters, menu>>
    /\ UNCHANGED <<histVars, exceptApp>>

\* launch_command(command): Popen with the output discarded, and return
launch_command(what) ==
    /\ ui = UiIdle
    /\ ExecutorFree
    /\ epc' = "launched"
    /\ cmd' = what
    /\ has_timeout' = FALSE
    /\ process' = "running"
    /\ children' = IF what.forks THEN "running" ELSE "none"
    /\ exit_status' = 0
    /\ in_time' = FALSE
    /\ timed_out' = FALSE
    /\ result' = NoResult
    /\ UNCHANGED exceptExec

NextMenu ==
    \/ \E i \in 1..RecentLimit, what \in Commands : ClickRecent(i, what)
    \/ ExecuteAndNotifyEnds
    \/ CallbackRaises
    \/ \E what \in Commands : launch_command(what)
    \/ Popen
    \/ ShellExits
    \/ ChildrenExit
    \/ CommunicateReturns
    \/ TimeoutExpires
    \/ CommunicateFaults
    \/ TimeoutHandler
    \/ ExceptionHandler

SpecMenu == InitMenu /\ [][NextMenu]_vars

(***************************************************************************)
(* The two writers of the command history file: the popup processes, each  *)
(* loading the file afresh, and the menu-bar process with the list it      *)
(* loaded at start.                                                        *)
(***************************************************************************)
\* a Recent Commands item is clicked and execute_command returns:
\* _execute_and_notify saves the command, rebuilds the menu and notifies
RecentItemRuns(i) ==
    /\ ui = UiIdle
    /\ i \in 1..Len(menu)
    /\ lastOp' = [op |-> "add", token |-> menu[i], before |-> hitems,
                  write |-> IF Rejected(hcls, menu[i]) THEN "none" ELSE "ok"]
    /\ IF Rejected(hcls, menu[i])
       THEN UNCHANGED <<hitems, hfile>>
       ELSE /\ hitems' = Added(hitems, menu[i], hmax)
            /\ hfile' = Saved(hitems')
    /\ menu' = Take(hitems', RecentLimit)
    /\ UNCHANGED <<hcls, hmax>>
    /\ UNCHANGED <<popup_lock, popup_process, started, alive, outcome, calls, waiters, ui>>
    /\ UNCHANGED exceptApp

NextWriters ==
    \/ NextPopup
    \/ \E i \in 1..RecentLimit : RecentItemRuns(i)

SpecWriters == InitPopup /\ [][NextWriters]_vars

(***************************************************************************)
(* The hotkey listener as a state machine: the user presses and releases   *)
(* keys, the OS delivers key-down events to the tap (the tap's mask holds  *)
(* key-down events only), and repeats them while a key is held.            *)
(***************************************************************************)
\* HotkeyManager.__init__ and start, the tap created
InitHotkey ==
    /\ hcls = "CommandHistory"
    /\ hmax = MaxCap
    /\ hfile = NoList("missing")
    /\ hitems = <<>>
    /\ lastOp = NoOp
    /\ variant = "mylauncher"
    /\ running = <<>>
    /\ installed = <<>>
    /\ shown = NoCall
    /\ ExecIdle
    /\ AppIdle
    /\ CfgIdle
    /\ hk_cfg \in Chords
    /\ hk_mods = {}
    /\ hk_held = NoKey
    /\ hk_downs = 0
    /\ hk_calls = 0
    /\ hk_last = NoEvent
    /\ ScanIdle
    /\ SessIdle
    /\ WorkIdle

\* a modifier key goes down: a flags-changed event, which the tap does not get
ModifierDown(m) ==
    /\ m \notin hk_mods
    /\ hk_mods' = hk_mods \cup {m}
    /\ UNCHANGED <<hk_cfg, hk_held, hk_downs, hk_calls, hk_last>>
    /\ UNCHANGED exceptHot

\* a modifier key goes up
ModifierUp(m) ==
    /\ m \in hk_mods
    /\ hk_mods' = hk_mods \ {m}
    /\ UNCHANGED <<hk_cfg, hk_held, hk_downs, hk_calls, hk_last>>
    /\ UNCHANGED exceptHot

\* the tap's callback: on a key-down event whose key code and modifiers
\* match, AppHelper.callAfter(self._on_hotkey) and return None; else return
\* the event
callback(event_type, keycode, flags) ==
    LET hit == event_type = "keyDown" /\ HotkeyMatches(keycode, flags)
    IN  /\ hk_calls' = IF hit THEN hk_calls + 1 ELSE hk_calls
        /\ hk_last' = [called |-> TRUE, type |-> event_type, keycode |-> keycode,
                       flags |-> flags,
                       returned |-> IF hit THEN "None" ELSE "event",
                       scheduled |-> hit]

\* the user presses a key: the OS delivers its key-down event
KeyDown(k) ==
    /\ hk_held = NoKey
    /\ hk_calls < MaxHotkeyCalls
    /\ hk_held' = k
    /\ hk_downs' = IF HotkeyMatches(k, hk_mods) THEN hk_downs + 1 ELSE hk_downs
    /\ callback("keyDown", k, hk_mods)
    /\ UNCHANGED <<hk_cfg, hk_mods>>
    /\ UNCHANGED exceptHot

\* the key stays down: the OS delivers a key-down event again (auto-repeat)
KeyRepeat ==
    /\ hk_held # NoKey
    /\ hk_calls < MaxHotkeyCalls
    /\ callback("keyDown", hk_held, hk_mods)
    /\ UNCHANGED <<hk_cfg, hk_mods, hk_held, hk_downs>>
    /\ UNCHANGED exceptHot

\* the user releases the key: a key-up event, which the tap does not get
KeyUp ==
    /\ hk_held # NoKey
    /\ hk_held' = NoKey
    /\ UNCHANGED <<hk_cfg, hk_mods, hk_downs, hk_calls, hk_last>>
    /\ UNCHANGED exceptHot

\* the system tells the tap that it was disabled: an event of another type,
\* carrying no key
TapDisabled(event_type) ==
    /\ callback(event_type, NoKey, hk_mods)
    /\ UNCHANGED <<hk_cfg, hk_mods, hk_held, hk_downs>>
    /\ UNCHANGED exceptHot

NextHotkey ==
    \/ \E m \in Modifiers : ModifierDown(m)
    \/ \E m \in Modifiers : ModifierUp(m)
    \/ \E k \in Keys : KeyDown(k)
    \/ KeyRepeat
    \/ KeyUp
    \/ \E event_type \in {"tapDisabledByTimeout", "tapDisabledByUserInput"} :
          TapDisabled(event_type)

SpecHotkey == InitHotkey /\ [][NextHotkey]_vars

(***************************************************************************)
(* The configuration as a state machine: config.py asks for its options,   *)
(* the user may delete the file.                                           *)
(***************************************************************************)
InitConfig ==
    /\ hcls = "CommandHistory"
    /\ hmax = MaxCap
    /\ hfile = NoList("missing")
    /\ hitems = <<>>
    /\ lastOp = NoOp
    /\ variant = "mylauncher"
    /\ running = <<>>
    /\ installed = <<>>
    /\ shown = NoCall
    /\ ExecIdle
    /\ AppIdle
    /\ HotIdle
    /\ cfg_file \in ConfigFiles
    /\ cfg_got = NoGet
    /\ ScanIdle
    /\ SessIdle
    /\ WorkIdle

\* ensure_config_exists: a missing file is written from the template
ensure_config_exists(file) == IF file.kind = "missing" THEN DEFAULT_CONFIG ELSE file

\* get(section, key, default) for an option of config.py
Get(o) ==
    /\ cfg_file' = ensure_config_exists(cfg_file)
    /\ cfg_got' = [called |-> TRUE, option |-> Name(o),
                   value |-> Lookup(load_config(cfg_file'), o),
                   regenerated |-> cfg_file.kind = "missing"]
    /\ UNCHANGED exceptCfg

\* get when the template cannot be written: mkdir or write_text raises
GetRaises ==
    /\ cfg_file.kind = "missing"
    /\ cfg_got' = NoGet
    /\ UNCHANGED cfg_file
    /\ UNCHANGED exceptCfg

\* the user deletes the file ("Delete to reset to defaults")
DeleteConfig ==
    /\ cfg_file.kind # "missing"
    /\ cfg_file' = MissingFile
    /\ UNCHANGED cfg_got
    /\ UNCHANGED exceptCfg

NextConfig ==
    \/ \E o \in Options : Get(o)
    \/ GetRaises
    \/ DeleteConfig

SpecConfig == InitConfig /\ [][NextConfig]_vars

(***************************************************************************)
(* Properties of the history stores.                                       *)
(***************************************************************************)
\* l without any occurrence of x
RECURSIVE Without(_, _)
Without(l, x) ==
    IF l = <<>> THEN <<>>
    ELSE IF Head(l) = x THEN Without(Tail(l), x)
    ELSE <<Head(l)>> \o Without(Tail(l), x)

\* r is the zero-based position of the first t in l
IsPosition(l, t, r) ==
    /\ r \in 0..(Len(l) - 1)
    /\ l[r + 1] = t
    /\ \A j \in 1..r : l[j] # t

\* the last call was add(token) and add did not reject the token
AddAccepted == lastOp.op = "add" /\ ~Rejected(hcls, lastOp.token)

\* the token of the last add is at index 0, the size is unchanged and the
\* other tokens are in their previous relative order
MovedToFront ==
    /\ hitems # <<>>
    /\ hitems[1] = lastOp.token
    /\ Len(hitems) = Len(lastOp.before)
    /\ Without(hitems, lastOp.token) = Without(lastOp.before, lastOp.token)

\* the token of the last add is at index 0 and only the last token was dropped
EvictedOldest ==
    hitems = <<lastOp.token>> \o SubSeq(lastOp.before, 1, hmax - 1)

\* C1: in every reachable state of either store (after loading any file
\* content, after any sequence of add calls) the number of stored tokens is
\* at most max_items.
C1_CapacityBound == Len(hitems) <= hmax

C1_Witness ==
    /\ AddAccepted
    /\ Len(lastOp.before) = hmax
    /\ ~Contains(lastOp.before, lastOp.token)
    /\ Len(hitems) = hmax

C3_Unique ==
    \A i, j \in 1..Len(hitems) : i # j => hitems[i] # hitems[j]

RecencyIsPosition(t) ==
    LET r == get_recency(t)
        l == get_all
    IN  /\ Contains(l, t) => IsPosition(l, t, r)
        /\ r = Sentinel <=> ~Contains(l, t)

\* C5 as stated: for every token and every reachable state of the app
\* history store, get_recency(token) is the zero-based position of the token
\* in get_all(), and is the sentinel 999 exactly when the token is not there.
C5_EveryToken ==
    hcls = "AppHistory" => \A t \in Tokens : RecencyIsPosition(t)

\* C5 amended: the same for every non-empty token, in a store of at most 999
\* entries.
C5_NonEmptyToken ==
    (hcls = "AppHistory" /\ Len(hitems) <= Sentinel)
        => \A t \in Tokens \ {<<>>} : RecencyIsPosition(t)

C5_Witness ==
    /\ hcls = "AppHistory"
    /\ lastOp.op = "add"
    /\ \E t \in Tokens \ {<<>>} : get_recency(t) = 1 /\ hitems[2] = t
    /\ \E t \in Tokens \ {<<>>} : get_recency(t) = Sentinel /\ ~Contains(hitems, t)

(***************************************************************************)
(* Properties of the suggestion ranker.                                    *)
(***************************************************************************)
\* name contains q case-insensitively
ContainsCI(name, q) ==
    \E i \in 0..(Len(name) - Len(q)) :
        \A j \in 1..Len(q) : Lower(name)[i + j] = Lower(q)[j]

\* the running and the installed records of the list shown
ShownRunning == Filter(shown.items, {a \in Range(shown.items) : a.is_running})
ShownInstalled == Filter(shown.items, {a \in Range(shown.items) : ~a.is_running})

\* lowercase names of the running apps
RunningNames == {Lower(running[i].name) : i \in 1..Len(running)}

\* a sorts before or with b by (recency of bundle id, lowercase name)
RecencyNameLE(a, b) ==
    \/ get_app_recency(a.bundle_id) < get_app_recency(b.bundle_id)
    \/ /\ get_app_recency(a.bundle_id) = get_app_recency(b.bundle_id)
       /\ ~SeqLess(Lower(b.name), Lower(a.name))

\* l holds exactly the records of S, each once
ListsExactly(l, S) == Range(l) = S /\ Len(l) = Cardinality(S)

\* C6: the suggestion list is all matching running records sorted ascending
\* by (recency of bundle id, lowercase name), followed by all matching
\* installed-but-not-running records sorted ascending by lowercase name.
C6_RankedList ==
    shown.called =>
        /\ shown.items = ShownRunning \o ShownInstalled
        /\ ListsExactly(ShownRunning,
              {a \in Range(get_running_apps(running)) : ContainsCI(a.name, shown.query)})
        /\ \A i \in 1..(Len(ShownRunning) - 1) :
              RecencyNameLE(ShownRunning[i], ShownRunning[i + 1])
        /\ ListsExactly(ShownInstalled,
              {a \in Range(installed) :
                  Lower(a.name) \notin RunningNames /\ ContainsCI(a.name, shown.query)})
        /\ \A i \in 1..(Len(ShownInstalled) - 1) :
              ~SeqLess(Lower(ShownInstalled[i + 1].name), Lower(ShownInstalled[i].name))

C6_Witness ==
    /\ shown.called
    /\ Len(ShownRunning) >= 2
    /\ get_app_recency(ShownRunning[1].bundle_id) < get_app_recency(ShownRunning[2].bundle_id)
    /\ get_app_recency(ShownRunning[2].bundle_id) < Sentinel
    /\ SeqLess(Lower(ShownRunning[2].name), Lower(ShownRunning[1].name))
    /\ Len(ShownInstalled) >= 1
    /\ Len(installed) > Len(ShownInstalled)

\* C7: the list holds no installed record whose lowercase name is that of a
\* running app, whatever the query.
C7_RunningVariantOnly ==
    shown.called =>
        \A i \in 1..Len(shown.items) :
            ~shown.items[i].is_running => Lower(shown.items[i].name) \notin RunningNames

C7_Witness ==
    /\ shown.called
    /\ shown.query # <<>>
    /\ \E a \in Range(installed) :
          Lower(a.name) \in RunningNames /\ ContainsCI(a.name, shown.query)
    /\ Len(ShownInstalled) >= 1
    /\ Len(ShownRunning) >= 1

\* C8: for a non-empty query the list is the empty-query list restricted to
\* the records whose name contains the query case-insensitively, in the same
\* relative order.
C8_FilterOfFullList ==
    (shown.called /\ shown.query # <<>>) =>
        LET full == Suggestions(get_running_apps(running), installed, <<>>)
        IN  shown.items = Filter(full, {a \in Range(full) : ContainsCI(a.name, shown.query)})

C8_Witness ==
    /\ shown.called
    /\ shown.query # <<>>
    /\ Len(ShownRunning) >= 1
    /\ Len(ShownInstalled) >= 1
    /\ Len(ShownRunning) < Len(running)
    /\ Len(installed) >= 2

\* the same processes in another enumeration order
Enumerations(l) ==
    {[i \in 1..Len(l) |-> l[f[i]]] :
        f \in {g \in [1..Len(l) -> 1..Len(l)] :
                 \A i, j \in 1..Len(l) : i # j => g[i] # g[j]}}

\* what the user sees of a list: every field of its records but the OS handle
Visible(l) ==
    [i \in 1..Len(l) |->
        [name |-> l[i].name, bundle_id |-> l[i].bundle_id,
         path |-> l[i].path, is_running |-> l[i].is_running]]

\* C9 as stated: the same running apps, installed apps, history and query
\* give the same list, whatever order the OS enumerates the apps in.
C9_Deterministic ==
    shown.called =>
        \A os_list \in Enumerations(running) :
            Visible(Suggestions(get_running_apps(os_list), installed, shown.query))
                = Visible(shown.items)

(***************************************************************************)
(* Properties of the command executor.                                     *)
(***************************************************************************)
\* C10 as stated: for a command that completes within the timeout the result
\* holds the exit status of the process as return_code and success is true
\* exactly when that status is 0; and in every result returned, success is
\* true only if return_code is 0.
C10_ExitStatusReported ==
    /\ (epc = "returned" /\ in_time) =>
          /\ result.return_code = exit_status
          /\ result.success <=> exit_status = 0
    /\ epc = "returned" => (result.success => result.return_code = 0)

\* C11 as stated: when the command did not complete within the timeout, the
\* call returns a result with success false and return_code -1, and once
\* control has left execute_command neither the shell nor any process of its
\* process group is running.
C11_TimeoutKillsGroup ==
    (timed_out /\ epc \in {"returned", "raised"}) =>
        /\ epc = "returned"
        /\ result.returned /\ ~result.success /\ result.return_code = -1
        /\ process # "running"
        /\ children # "running"

\* C12 as stated: execute_command never lets an exception out; whenever control
\* leaves it, it is by returning an ExecutionResult.
C12_NeverRaises ==
    /\ epc # "raised"
    /\ epc = "returned" => result.returned

(***************************************************************************)
(* Properties of the menu-bar application.                                 *)
(***************************************************************************)
\* C13: at most one popup process is alive at any moment, and a call of
\* show_command_popup whose guard finds a popup process alive starts no
\* process, starts no thread and changes nothing but its own position.
C13_SinglePopup ==
    [][/\ Cardinality(alive') <= 1
       /\ \A c \in Callers :
             (calls[c].pc = "locked" /\ PopupActive /\ calls'[c] # calls[c]) =>
                 /\ calls'[c].pc = "return"
                 /\ UNCHANGED <<popup_process, started, alive, outcome, waiters, menu,
                                hitems, hfile>>
       /\ \A c \in Callers :
             (calls[c].pc = "return" /\ calls'[c] # calls[c]) =>
                 /\ calls'[c].pc = "idle"
                 /\ UNCHANGED <<popup_process, started, alive, outcome, waiters, menu,
                                hitems, hfile>>]_vars

\* a second trigger was turned away while the one popup was alive
C13_Witness ==
    \E c \in Callers :
        /\ calls[c].pc = "return"
        /\ Cardinality(alive) = 1
        /\ \E d \in Callers \ {c} : calls[d].proc \in alive

\* C16 as stated: once a popup in which the user ran a command has ended and
\* its waiter has rebuilt the menu, the menu lists that command first (as
\* long as that command is still the most recent one in the history file).
C16_MenuListsPopupCommand ==
    \A w \in 1..MaxPopups :
        LET p == waiters[w].target
        IN  (/\ waiters[w].pc = "done"
             /\ p # 0
             /\ outcome[p].kind = "cmd"
             /\ hfile.items # <<>>
             /\ hfile.items[1] = outcome[p].command)
                => (menu # <<>> /\ menu[1] = outcome[p].command)

\* C15 as stated: the main thread never waits for a command: it is never the
\* thread that sits in communicate() (or in the kill and wait of a handler)
\* for a command run from the Recent Commands menu.
C15_UiNeverWaits ==
    ui.doing = "execute_command" => epc \notin {"communicate", "timeout"}

(***************************************************************************)
(* Properties of the hotkey listener.                                      *)
(***************************************************************************)
\* C14 as stated: the callback is scheduled exactly once per press of the
\* chord; the key-down events the OS repeats while the chord is held add none.
C14_OncePerPress == hk_calls = hk_downs

(***************************************************************************)
(* Properties of the configuration.                                        *)
(***************************************************************************)
\* the value get gives for option n when the file exists but lacks the key
ValueWhenKeyLacks(n) ==
    LET o == CHOOSE x \in Options : Name(x) = n
    IN  Lookup(load_config(EditedConfig({n}, {})), o)

\* C20 as stated: for every option, what get returns right after it has
\* regenerated a missing file is what it returns when the file lacks the key.
C20_OneDefault ==
    (cfg_got.called /\ cfg_got.regenerated) =>
        cfg_got.value = ValueWhenKeyLacks(cfg_got.option)

(***************************************************************************)
(* Properties of loading and saving.                                       *)
(***************************************************************************)
\* C17 as stated: a store constructed from a file that is missing, unreadable,
\* malformed, or valid JSON without a list under the key, holds nothing.
C17_NoListGivesEmpty ==
    (lastOp.op = "init" /\ hfile.kind # "list") => hitems = <<>>

\* what add does in memory when its write fails: no exception, the list as if
\* the write had succeeded, the token first for get_recent
FailedWriteUpdatesMemory ==
    /\ lastOp'.op = "add"
    /\ hitems' = Added(hitems, lastOp'.token, hmax)
    /\ Take(hitems', 1) = <<lastOp'.token>>

C19_FileMirrorsList ==
    (lastOp.op = "add" /\ lastOp.write = "ok") =>
        /\ hfile = [kind |-> "list", items |-> hitems]
        /\ json_loads(json_dumps(Key(hcls), hitems), Key(hcls)).items = hitems
        /\ hitems[1] = lastOp.token
        /\ Load(hfile, hmax) = hitems

\* a written list of two tokens, with a quote, a backslash, a newline and a
\* non-ASCII character among them
C19_Witness ==
    /\ lastOp.op = "add"
    /\ lastOp.write = "ok"
    /\ hitems = <<<<34, 92>>, <<233, 10>>>>
    /\ hfile.kind = "list"


(***************************************************************************)
(* The scan of the application directories.                                *)
(***************************************************************************)
\* the directories that exist and hold a bundle of this name, whatever its case
HoldersOf(name) ==
    {d \in 1..3 : disk[d].exists
                  /\ \E k \in 1..Len(disk[d].entries) :
                        Lower(disk[d].entries[k]) = Lower(name)}

SetMin(S) == CHOOSE m \in S : \A n \in S : m <= n

C29_SameRecencyKey ==
    \A i \in 1..Len(running) :
        LET bundle_id == get_running_apps(running)[i].bundle_id
        IN  recency_map_get(bundle_id) = get_app_recency(bundle_id)

\* C29: get_running_app_suggestions orders the running apps as
\* get_all_app_suggestions orders them for the same query.
C29_SameOrder ==
    shown.called =>
        shown.items = Filter(get_all_app_suggestions(get_running_apps(running), installed,
                                                     shown.query),
                             {a \in Range(shown.items) : a.is_running})

(***************************************************************************)
(* The popup session.                                                      *)
(***************************************************************************)
\* the session is over and it was Escape or the closing of the window that
\* dismissed the popup, no handler having run after it
Cancelled ==
    /\ win = "done"
    /\ dismissed \in {"escape", "close"}
    /\ ~late

\* what the session did: the apps focused or launched, the commands launched
Performed == Filter(acts, {a \in Range(acts) : a.do # "restore_focus"})

\* C22: a popup dismissed with Escape or by closing the window, whatever
\* the text of its input field, launches no command, focuses and launches
\* no app and changes neither history store.
C22_CancelDoesNothing ==
    Cancelled => /\ Performed = <<>>
                 /\ lastOp = NoOp
                 /\ hitems = Load(hfile, hmax)
                 /\ cmd_items = <<>>

\* the same for the two run_popup implementations alone
CancelDoesNothingInRunPopup ==
    pk # "mycli/app.py" => C22_CancelDoesNothing

\* the running apps that match the text
RunningMatches(text) == get_running_app_suggestions(get_running_apps(running), text)

\* Enter was the event that closed the popup and no handler ran after it
EnterClosed == dismissed = "enter" /\ ~late

\* C23: in run_popup of mylauncher the text selects the mode: after ">" no
\* app records are shown and Enter runs the stripped rest, which is not
\* empty, as a command; after "@" the list is get_all_app_suggestions of the
\* rest; for any other text the list is get_running_app_suggestions of the
\* text and Enter runs the text as a command if and only if no running app
\* matches it.  (Read before the result is handled, which changes the
\* history the lists are ranked by.)
C23_ModeByPrefix ==
    pk = "mylauncher/popup.py" /\ search_var # <<>> /\ win # "done" =>
        IF StartsWith(search_var, Gt)
        THEN /\ current_items = <<>>
             /\ EnterClosed =>
                   /\ result_app = NoApp
                   /\ result_cmd = Strip(Tail(Strip(search_var)))
                   /\ result_cmd # <<>>
        ELSE IF StartsWith(search_var, At)
        THEN current_items =
                 get_all_app_suggestions(get_running_apps(running), installed,
                                         Tail(search_var))
        ELSE /\ current_items = RunningMatches(search_var)
             /\ EnterClosed =>
                   /\ (result_cmd # NoneV) <=> (RunningMatches(search_var) = <<>>)
                   /\ result_cmd # NoneV => result_cmd = Strip(search_var)

(***************************************************************************)
(* popup_worker.                                                           *)
(***************************************************************************)
\* the "show" commands among the commands received
ShowsReceived == Filter(received, {"show"})

\* the commands received before the last one
EarlierReceived == SubSeq(received, 1, Len(received) - 1)

IsHotkeyEvent(e) ==
    /\ e.type = "keyDown"
    /\ e.keycode = hk_cfg.vk
    /\ \A m \in hk_cfg.mods : m \in e.flags

\* C25: the tap's callback returns None and schedules the registered
\* callback if and only if the event is a key-down event with the
\* configured key code and every configured modifier among its flags; any
\* other event is returned and schedules nothing.
C25_ConsumesExactlyTheHotkey ==
    hk_last.called =>
        /\ hk_last.returned = "None" <=> IsHotkeyEvent(hk_last)
        /\ hk_last.scheduled <=> IsHotkeyEvent(hk_last)
        /\ ~IsHotkeyEvent(hk_last) => hk_last.returned = "event"

\* the chord was pressed with one more modifier down and was consumed, and
\* before it an event was passed on
C25_Witness ==
    /\ hk_last.called
    /\ hk_last.returned = "None"
    /\ hk_last.scheduled
    /\ hk_last.flags # hk_cfg.mods
    /\ hk_calls = 1
    /\ hk_downs = 1

\* a key-down event that is not the chord was passed on
PassedOn ==
    /\ hk_last.called
    /\ hk_last.type = "keyDown"
    /\ hk_last.returned = "event"
    /\ ~hk_last.scheduled

(***************************************************************************)
(* The deferred load of the apps in run_popup.                             *)
(***************************************************************************)
\* C26: in run_popup of mylauncher, once load_apps_async has run, the list
\* shown is get_suggestions of the text in the search field, whatever the
\* order of key events and load.
C26_ListFollowsText ==
    pk = "mylauncher/popup.py" /\ apps_loaded /\ win = "open" =>
        current_items = get_suggestions(search_var)

\* the same where no text was in the field when the load ran: told by the
\* load having filled the list or by there being nothing to show
ListFollowsTextTypedLater ==
    pk = "mylauncher/popup.py" /\ apps_loaded /\ win = "open" /\ current_items # <<>> =>
        current_items = get_suggestions(search_var)

(***************************************************************************)
(* The history file under two writers; the waiter threads.                 *)
(***************************************************************************)
\* C27: a command that a popup process has saved is in the history file
\* after every later save of the menu-bar process, unless the file is at
\* capacity (an eviction may then have removed it).
C27_NoEntryLost ==
    \A p \in 1..MaxPopups :
        outcome[p].kind = "cmd" =>
            \/ Contains(hfile.items, outcome[p].command)
            \/ Len(hfile.items) >= hmax

\* C28: the waiter thread started by a call of show_command_popup joins the
\* popup process that this call created.
C28_WaiterJoinsItsPopup ==
    \A w \in 1..MaxPopups :
        waiters[w].pc \in {"join", "done"} => waiters[w].target = w

(***************************************************************************)
(* What one run_popup session does.                                        *)
(***************************************************************************)
\* the app history holds what it held before the session, or that with one
\* entry for the app put first
AppHistoryGainedAtMost(app) ==
    \/ lastOp = NoOp
    \/ /\ lastOp.op = "add"
       /\ lastOp.token \in {app.bundle_id, app.name}
       /\ \/ hitems = lastOp.before
          \/ /\ hitems # <<>>
             /\ hitems[1] = lastOp.token
             /\ \A i \in 2..Len(hitems) : Contains(lastOp.before, hitems[i])

\* C30: a run_popup session (mylauncher/popup.py, mycli/popup.py), whatever
\* the UI events, does nothing before its window is gone and then at most
\* one thing: it focuses the chosen app if that runs, launches it if it is
\* installed, or else launches the typed command; the app history gains an
\* entry only for an app acted on, the command history only for a command
\* launched, and a chosen app goes before a typed command.
C30_AtMostOneAction ==
    pk # "mycli/app.py" =>
        /\ Len(Performed) <= 1
        /\ win # "done" => Performed = <<>> /\ lastOp = NoOp /\ cmd_items = <<>>
        /\ win = "done" /\ result_app # NoApp =>
              /\ Performed = <<[do |-> IF result_app[1].is_running THEN "focus_app"
                                       ELSE "launch_app",
                                what |-> IF result_app[1].is_running
                                         THEN result_app[1].app_obj
                                         ELSE result_app[1].path]>>
              /\ cmd_items = <<>>
              /\ AppHistoryGainedAtMost(result_app[1])
        /\ win = "done" /\ result_app = NoApp /\ result_cmd # NoneV =>
              /\ Performed = <<[do |-> "launch_command", what |-> result_cmd]>>
              /\ cmd_items = <<result_cmd>>
              /\ lastOp = NoOp
        /\ win = "done" /\ result_app = NoApp /\ result_cmd = NoneV =>
              /\ Performed = <<>>
              /\ cmd_items = <<>>
              /\ lastOp = NoOp

\* a session has ended in which a command was typed and run and an app was
\* chosen all the same: the app alone was acted on
C30_Witness ==
    /\ win = "done"
    /\ result_app # NoApp
    /\ result_cmd # NoneV
    /\ Len(Performed) = 1
    /\ Performed[1].do \in {"focus_app", "launch_app"}
    /\ lastOp.op = "add"

\* sessions have ended in a launched command, and in nothing at all
EndedInCommand == win = "done" /\ Len(Performed) = 1 /\ Performed[1].do = "launch_command"

EndedInNothing == win = "done" /\ Performed = <<>> /\ pk = "mycli/popup.py"
====
